---- MODULE Spec2Model ----
(***************************************************************************)
(* GitHub Repository Creator: the repository-creation workflow of          *)
(* ui/main_window.py (UI thread, worker threads, the after(0, ...) hand-   *)
(* off), the local repository operations of services/git_service.py, the   *)
(* remote provider of services/github_service.py and the input validators  *)
(* of services/validation_service.py.                                      *)
(*                                                                         *)
(* Strings are sequences of one-character strings.  A directory tree is a  *)
(* record of path sets; a path is a sequence of entry names relative to    *)
(* the working directory (<<>> is the working directory itself).           *)
(***************************************************************************)
EXTENDS Integers, Sequences, FiniteSets, TLC

(***************************************************************************)
(* Bounds of the model.                                                    *)
(***************************************************************************)
MaxDepth == 2        \* deepest directory below the working directory
MaxEntries == 4      \* entries (directories and files) a test tree may hold
MaxFaults == 1       \* directories with a permission fault

(***************************************************************************)
(* Directory trees.                                                        *)
(***************************************************************************)
DirNames == {"a", ".git"}
FileNames == {"f", ".gitkeep"}
gitkeep_name == ".gitkeep"
GitDirName == ".git"

Parent(p) == SubSeq(p, 1, Len(p) - 1)
Basename(p) == p[Len(p)]

\* Besides its entries a tree records the directories with a permission
\* fault: unreadable (cannot be listed), unwritable (no file can be created
\* in it), unsearchable (can be listed, but its entries cannot be reached:
\* mode r--), and the files the ignore rules of the version-control tool
\* exclude (ignored).
EmptyTree == [dirs |-> {<<>>}, files |-> {}, unreadable |-> {}, unwritable |-> {},
              unsearchable |-> {}, ignored |-> {}]

SubDirs(t, d) == {p \in t.dirs : Len(p) = Len(d) + 1 /\ Parent(p) = d}
FilesIn(t, d) == {p \in t.files : Len(p) = Len(d) + 1 /\ Parent(p) = d}
EntryCount(t) == Cardinality(t.dirs) - 1 + Cardinality(t.files)
FaultCount(t) == Cardinality(t.unreadable \cup t.unwritable \cup t.unsearchable)

\* '.git' in root_path.parts
InGitParts(p) == \E i \in 1..Len(p) : p[i] = GitDirName

\* os.walk lists a directory before it yields it and silently skips one it
\* cannot list (onerror is None), so a directory is yielded only when it and
\* every directory above it can be read, and every directory above it can be
\* searched.
WalkYields(t, d) ==
    /\ \A i \in 0..Len(d) : SubSeq(d, 1, i) \notin t.unreadable
    /\ \A i \in 0..(Len(d) - 1) : SubSeq(d, 1, i) \notin t.unsearchable

WalkDirs(t) == {d \in t.dirs : WalkYields(t, d)}

\* A variant that treats a directory as empty when nothing below it is a
\* regular file (the transitive rule).
is_empty_leaf_folder_Transitive(t, folder_path) ==
    /\ folder_path \notin t.unreadable
    /\ ~ \E item \in t.files :
            /\ Len(item) > Len(folder_path)
            /\ SubSeq(item, 1, Len(folder_path)) = folder_path
            /\ Basename(item) # gitkeep_name

\* is_empty_leaf_folder: iterdir, skip a .git directory, any file other than
\* the marker sets has_files, any other directory sets has_subdirs; a
\* directory that cannot be listed is reported as not empty, and so is one
\* whose entries cannot be reached (is_dir/is_file raise PermissionError
\* inside the try) unless it has no entry at all.
is_empty_leaf_folder(t, folder_path) ==
    IF folder_path \in t.unreadable
    THEN FALSE
    ELSE IF folder_path \in t.unsearchable
    THEN FilesIn(t, folder_path) \cup SubDirs(t, folder_path) = {}
    ELSE LET has_files ==
                 \E item \in FilesIn(t, folder_path) : Basename(item) # gitkeep_name
             has_subdirs ==
                 \E item \in SubDirs(t, folder_path) : Basename(item) # GitDirName
         IN  ~has_files /\ ~has_subdirs

\* A variant without the exists() test.
GitkeepMissing_Unchecked(t, root_path) == TRUE
\* if not gitkeep_path.exists()
GitkeepMissing(t, root_path) ==
    (root_path \o <<gitkeep_name>>) \notin t.files

\* gitkeep_path.exists() stats the path and passes on every OSError but
\* ENOENT, ENOTDIR, EBADF and ELOOP: in a directory that cannot be searched
\* it raises PermissionError, outside any try of create_gitkeep_files.  (With
\* an exists() that answers False instead, such a directory behaves like an
\* unwritable one.)
ExistsRaises(t, root_path) == root_path \in t.unsearchable

\* gitkeep_path.touch(): raises PermissionError in a directory that cannot
\* be written, creates the zero-byte marker otherwise.
TouchOk(t, root_path) == root_path \notin t.unwritable \cup t.unsearchable
Touch(t, root_path) ==
    [t EXCEPT !.files = @ \cup {root_path \o <<gitkeep_name>>}]

\* A variant that walks into .git as well.
SkipsGit_Never(root_path) == FALSE
\* if '.git' in root_path.parts: continue
SkipsGit(root_path) == InGitParts(root_path)

\* A variant that counts every empty leaf it visits, created or not.
WalkStep_CountsVisited(st, root_path) ==
    IF SkipsGit(root_path)
    THEN st
    ELSE IF is_empty_leaf_folder(st.tree, root_path)
         THEN IF ExistsRaises(st.tree, root_path)
              THEN [st EXCEPT !.raised = TRUE]
              ELSE IF GitkeepMissing(st.tree, root_path) /\ TouchOk(st.tree, root_path)
              THEN [st EXCEPT !.tree = Touch(st.tree, root_path), !.count = @ + 1]
              ELSE [st EXCEPT !.count = @ + 1]
         ELSE st
\* One iteration of the for loop over os.walk: the state is the tree, the
\* running count and whether an error left the loop.
WalkStep(st, root_path) ==
    IF SkipsGit(root_path)
    THEN st
    ELSE IF is_empty_leaf_folder(st.tree, root_path)
         THEN IF ExistsRaises(st.tree, root_path)
              THEN [st EXCEPT !.raised = TRUE]
              ELSE IF GitkeepMissing(st.tree, root_path)
              THEN IF TouchOk(st.tree, root_path)
                   THEN [st EXCEPT !.tree = Touch(st.tree, root_path), !.count = @ + 1]
                   ELSE st
              ELSE st
         ELSE st

\* The walk is top-down: a directory is visited before the directories below
\* it.  The directories to visit are fixed by the listing, which the markers
\* created on the way (files) do not change.
RECURSIVE WalkLoop(_, _)
WalkLoop(st, todo) ==
    IF todo = {} \/ st.raised
    THEN st
    ELSE LET root_path == CHOOSE d \in todo : \A e \in todo : Len(d) <= Len(e)
         IN  WalkLoop(WalkStep(st, root_path), todo \ {root_path})

\* The result: the tree as the call leaves it, and either the count it
\* returns or the fact that it raised.
create_gitkeep_files(t) ==
    WalkLoop([tree |-> t, count |-> 0, raised |-> FALSE], WalkDirs(t))

(***************************************************************************)
(* Strings (sequences of characters) and the string functions the code     *)
(* uses.                                                                   *)
(***************************************************************************)
LowerLetters == <<"a", "b", "c", "d", "e", "f", "g", "h", "i", "j", "k", "l", "m",
                  "n", "o", "p", "q", "r", "s", "t", "u", "v", "w", "x", "y", "z">>
UpperLetters == <<"A", "B", "C", "D", "E", "F", "G", "H", "I", "J", "K", "L", "M",
                  "N", "O", "P", "Q", "R", "S", "T", "U", "V", "W", "X", "Y", "Z">>
Range(f) == {f[i] : i \in DOMAIN f}
Letters == Range(LowerLetters) \cup Range(UpperLetters)
Digits == {"0", "1", "2", "3", "4", "5", "6", "7", "8", "9"}
Whitespace == {" ", "\t", "\n", "\r"}

Rep(c, n) == [i \in 1..n |-> c]

\* str.strip()
RECURSIVE lstrip(_)
lstrip(s) == IF s # <<>> /\ Head(s) \in Whitespace THEN lstrip(Tail(s)) ELSE s
RECURSIVE rstrip(_)
rstrip(s) ==
    IF s # <<>> /\ s[Len(s)] \in Whitespace THEN rstrip(SubSeq(s, 1, Len(s) - 1)) ELSE s
strip(s) == rstrip(lstrip(s))

startswith(s, prefix) ==
    Len(s) >= Len(prefix) /\ SubSeq(s, 1, Len(prefix)) = prefix
endswith(s, suffix) ==
    Len(s) >= Len(suffix) /\ SubSeq(s, Len(s) - Len(suffix) + 1, Len(s)) = suffix
\* sub in s
contains(s, sub) ==
    \E i \in 1..(Len(s) - Len(sub) + 1) : SubSeq(s, i, i + Len(sub) - 1) = sub
\* str.lower()
lower(s) ==
    [i \in 1..Len(s) |->
        IF s[i] \in Range(UpperLetters)
        THEN LowerLetters[CHOOSE k \in 1..Len(UpperLetters) : UpperLetters[k] = s[i]]
        ELSE s[i]]

\* re.match(r'^<prefix>[<class>]{<least>,}$', s): every character after the
\* prefix is in the class and there are at least `least` of them; `$` also
\* matches just before one newline that ends the string.
ClassRun(s, prefix, class, least) ==
    /\ startswith(s, prefix)
    /\ Len(s) - Len(prefix) >= least
    /\ \A i \in (Len(prefix) + 1)..Len(s) : s[i] \in class
re_match(s, prefix, class, least) ==
    \/ ClassRun(s, prefix, class, least)
    \/ /\ s # <<>>
       /\ s[Len(s)] = "\n"
       /\ ClassRun(SubSeq(s, 1, Len(s) - 1), prefix, class, least)

(***************************************************************************)
(* services/validation_service.py                                          *)
(***************************************************************************)
MaxNameLen == 100
MinTokenLen == 20
MinClassicLen == 40
MinClassicBody == 36
MinFineGrainedLen == 50
MinFineGrainedBody == 40

NameChars == Letters \cup Digits \cup {".", "_", "-"}
ClassicPrefix == <<"g", "h", "p", "_">>
FineGrainedPrefix == <<"g", "i", "t", "h", "u", "b", "_", "p", "a", "t", "_">>
reserved_names == {<<".">>, <<".", ".">>, <<".", "g", "i", "t">>}

Verdict(valid, msg) == [valid |-> valid, msg |-> msg]

\* The folders a path can name.  ProjectDir is the working directory whose
\* tree is fs; the others stand for a missing path and a regular file.
ProjectDir == <<"/", "p">>
MissingPath == <<"/", "x">>
PlainFile == <<"/", "f">>
path_exists(path) == path \in {ProjectDir, PlainFile}
path_is_dir(path) == path = ProjectDir

validate_folder_path(path, t) ==
    IF path = <<>> THEN Verdict(FALSE, "Folder path cannot be empty")
    ELSE IF ~path_exists(path) THEN Verdict(FALSE, "Folder does not exist")
    ELSE IF ~path_is_dir(path) THEN Verdict(FALSE, "Path is not a directory")
    ELSE IF <<>> \in t.unreadable THEN Verdict(FALSE, "Folder is not readable")
    ELSE IF <<>> \in t.unsearchable THEN Verdict(FALSE, "Error validating folder path")
    ELSE IF <<GitDirName>> \in t.dirs
         THEN Verdict(TRUE, "Warning: Folder already contains a Git repository")
    ELSE Verdict(TRUE, "")

validate_repository_name(name) ==
    IF name = <<>> THEN Verdict(FALSE, "Repository name cannot be empty")
    ELSE IF Len(name) > MaxNameLen
         THEN Verdict(FALSE, "Repository name must be 100 characters or less")
    ELSE IF ~re_match(name, <<>>, NameChars, 1)
         THEN Verdict(FALSE, "Repository name can only contain alphanumeric characters, hyphens, underscores, and periods")
    ELSE IF startswith(name, <<".">>) \/ endswith(name, <<".">>)
         THEN Verdict(FALSE, "Repository name cannot start or end with a period")
    ELSE IF contains(name, <<".", ".">>)
         THEN Verdict(FALSE, "Repository name cannot contain consecutive periods")
    ELSE IF lower(name) \in reserved_names
         THEN Verdict(FALSE, "Repository name is reserved")
    ELSE Verdict(TRUE, "")

validate_token(token) ==
    IF token = <<>> THEN Verdict(FALSE, "Token cannot be empty")
    ELSE IF Len(token) < MinTokenLen THEN Verdict(FALSE, "Token appears too short")
    ELSE IF startswith(token, ClassicPrefix)
         THEN IF Len(token) < MinClassicLen
              THEN Verdict(FALSE, "Classic token appears too short")
              ELSE IF ~re_match(token, ClassicPrefix, Letters \cup Digits, MinClassicBody)
                   THEN Verdict(FALSE, "Invalid classic token format")
                   ELSE Verdict(TRUE, "")
    ELSE IF startswith(token, FineGrainedPrefix)
         THEN IF Len(token) < MinFineGrainedLen
              THEN Verdict(FALSE, "Fine-grained token appears too short")
              ELSE IF ~re_match(token, FineGrainedPrefix, Letters \cup Digits \cup {"_"},
                                MinFineGrainedBody)
                   THEN Verdict(FALSE, "Invalid fine-grained token format")
                   ELSE Verdict(TRUE, "")
    ELSE Verdict(FALSE, "Token must start with 'ghp_' (classic) or 'github_pat_' (fine-grained)")

(***************************************************************************)
(* State.                                                                  *)
(***************************************************************************)
VARIABLES
    fs,                   \* the tree of the working directory (GitService.repo_path)
    gkRuns,               \* the create_gitkeep_files calls a test made: before, after, count
    GITPYTHON_AVAILABLE,  \* services/git_service.py, set at import
    PYGITHUB_AVAILABLE,   \* services/github_service.py, set at import
    form,                 \* the StringVars of the form (owned by the UI thread)
    is_processing,        \* MainWindow.is_processing
    widgets_enabled,      \* state of create_button, browse_button and the entries
    status_shown,         \* last line update_status wrote from a UI handler
    uiQueue,              \* callbacks registered with after(0, ...), oldest first
    sink,                 \* per run, the status lines update_status has shown
    worker,               \* the worker threads started so far, in start order
    remoteRepos,          \* repositories that exist at the hosting provider
    git,                  \* the local repository in the working directory
    service,              \* the service object a test holds (GitService.repo)
    CONFIG_FILE,          \* utils/config.py: what app_config.json holds
    calls                 \* the service calls a test made, with what they returned

libVars == <<GITPYTHON_AVAILABLE, PYGITHUB_AVAILABLE>>
wfVars == <<libVars, form, is_processing, widgets_enabled, status_shown, uiQueue, sink,
            worker, remoteRepos, git>>
svcVars == <<service, calls, CONFIG_FILE>>
vars == <<fs, gkRuns, svcVars, wfVars>>

(***************************************************************************)
(* services/github_service.py                                              *)
(***************************************************************************)
\* How the hosting API answers a call.
ValidateApiOutcomes == {"ok", "unauthorized", "network", "error"}
CreateApiOutcomes == {"created", "422", "401", "500", "network"}

\* repo.clone_url of the repository the provider created for `name`
clone_url(name) == <<"h", "t", "t", "p", "s", ":">> \o name \o <<".", "g", "i", "t">>

RepoNames(repos) == {rp.name : rp \in repos}

\* GitHubService.validate_token with no look at what the live call raises
GitHubService_validate_token_Trusting(token, api) ==
    token # <<>> /\ PYGITHUB_AVAILABLE

\* GitHubService.validate_token: False for an empty token, without the
\* library, and for anything get_user()/user.login raises.
GitHubService_validate_token(token, api) ==
    IF token = <<>> THEN FALSE
    ELSE IF ~PYGITHUB_AVAILABLE THEN FALSE
    ELSE api = "ok"

\* Python's None, as the value of an optional argument
None == <<"None">>

\* The keyword arguments of user.create_repo(...): an empty description is
\* sent as None, auto_init is False, and no gitignore or license template
\* is named.
CreateRequest(name, private, description) ==
    [name |-> name, private |-> private,
     description |-> IF description = <<>> THEN None ELSE description,
     auto_init |-> FALSE, templates |-> {}]
NoRequest == [name |-> <<>>, private |-> FALSE, description |-> None,
              auto_init |-> FALSE, templates |-> {}]

\* repo.html_url: the address of the repository's page
html_url(name) == <<"h", "t", "t", "p", "s", ":">> \o name

\* create_repository returning the page address instead of the clone URL
create_repository_HtmlUrl(name, private, description, api) ==
    [ok |-> PYGITHUB_AVAILABLE /\ api = "created",
     url |-> IF PYGITHUB_AVAILABLE /\ api = "created" THEN html_url(name) ELSE <<>>,
     error |-> IF PYGITHUB_AVAILABLE /\ api = "created"
               THEN "" ELSE "Error: Failed to create repository",
     request |-> [name |-> name, private |-> private,
                  description |-> IF description = <<>> THEN None ELSE description,
                  auto_init |-> FALSE, templates |-> {}]]

\* the request as it would be with the initial README asked for
create_repository_AutoInit(name, private, description, api) ==
    [ok |-> api = "created", url |-> IF api = "created" THEN clone_url(name) ELSE <<>>,
     error |-> IF api = "created" THEN "" ELSE "Error: Failed to create repository",
     request |-> [CreateRequest(name, private, description) EXCEPT !.auto_init = TRUE]]

\* GitHubService.create_repository: the clone URL, or the Exception raised.
\* The message for status 422 quotes the name the caller passed; its wording
\* is the same whatever made the provider answer 422.
create_repository(name, private, description, api) ==
    IF ~PYGITHUB_AVAILABLE
    THEN [ok |-> FALSE, url |-> <<>>, error |-> "Error: PyGithub library not available",
          request |-> NoRequest]
    ELSE LET request == CreateRequest(name, private, description)
         IN  CASE api = "created" ->
                    [ok |-> TRUE, url |-> clone_url(name), error |-> "",
                     request |-> request]
               [] api = "422" ->
                    [ok |-> FALSE, url |-> <<>>,
                     error |-> "Error: Repository already exists or name is invalid",
                     request |-> request]
               [] api = "401" ->
                    [ok |-> FALSE, url |-> <<>>,
                     error |-> "Error: Authentication failed. Please check your token.",
                     request |-> request]
               [] OTHER ->
                    [ok |-> FALSE, url |-> <<>>,
                     error |-> "Error: Failed to create repository",
                     request |-> request]

\* How the hosting API answers get_repo(name).
ExistsApiOutcomes == {"found", "not_found", "forbidden", "server_error", "network"}

\* GitHubService.check_repository_exists that takes an error other than 404
\* for a repository it cannot access
check_repository_exists_Optimistic(name, api) ==
    PYGITHUB_AVAILABLE /\ api \notin {"not_found", "network"}

\* GitHubService.check_repository_exists: True when get_repo returned the
\* repository, False without the library, for 404, for every other
\* GithubException and for anything else that is raised.
check_repository_exists(name, api) ==
    IF ~PYGITHUB_AVAILABLE THEN FALSE
    ELSE api = "found"

\* user.create_repo(name, private, description or None, auto_init=False) at
\* the provider
NewRemote(name, private, description) ==
    [name |-> name, private |-> private, description |-> description,
     auto_init |-> FALSE, clone_url |-> clone_url(name), pushed |-> FALSE]

(***************************************************************************)
(* services/git_service.py: each operation as a function of the outcome of *)
(* the underlying tool ("ok", "fail": non-zero exit, "raise": an error is  *)
(* thrown).  GitPython calls have no exit status: they raise on failure.   *)
(***************************************************************************)
ToolOutcomes == {"ok", "fail", "raise"}
RenameOutcomes == ToolOutcomes \cup {"fail_already_exists"}
NoRemote == <<>>

\* utils/config.py: no app_config.json yet
MissingFile == [state |-> "missing", data |-> <<>>]

\* no test holds a service object
NoService == [repo |-> FALSE]

NewLocalRepo == [staged |-> 0, commits |-> 0, origin |-> NoRemote,
                 branch |-> "master", pushes |-> 0]

\* GitService.__init__: self.repo is set when GitPython is there and .git
\* exists
GitService_init(t) == GITPYTHON_AVAILABLE /\ <<GitDirName>> \in t.dirs

\* GitService.initialize_repo.  The whole body is inside try/except
\* Exception (lines 48-72): `raised` says whether an error leaves the call.
initialize_repo(repo, o) ==
    IF GITPYTHON_AVAILABLE /\ ~repo
    THEN IF o = "ok"
         THEN [ret |-> TRUE, repo |-> TRUE, done |-> TRUE, raised |-> FALSE]
         ELSE [ret |-> FALSE, repo |-> repo, done |-> FALSE, raised |-> FALSE]
    ELSE IF o = "ok"
         THEN [ret |-> TRUE, repo |-> (GITPYTHON_AVAILABLE \/ repo), done |-> TRUE,
               raised |-> FALSE]
         ELSE [ret |-> FALSE, repo |-> repo, done |-> FALSE, raised |-> FALSE]

\* git init in the working directory
GitInitEffect(t) == [t EXCEPT !.dirs = @ \cup {<<GitDirName>>}]

\* a directory of the hosting provider's workflows, next to a and .git
GithubDirName == ".github"
\* a name as the text it is
Spelled(n) ==
    CASE n = ".git" -> <<".", "g", "i", "t">>
      [] n = ".github" -> <<".", "g", "i", "t", "h", "u", "b">>
      [] n = ".gitkeep" -> <<".", "g", "i", "t", "k", "e", "e", "p">>
      [] OTHER -> <<n>>
\* sub in s, for two texts
Contains(s, sub) ==
    \E i \in 0..(Len(s) - Len(sub)) : SubSeq(s, i + 1, i + Len(sub)) = sub
\* names of directories in which the text '.git' occurs
NamesContainingDotGit ==
    {n \in DirNames \cup {GithubDirName} : Contains(Spelled(n), Spelled(GitDirName))}
\* '.git' in root (the path as a string; the text has no separator in it, so
\* it occurs in the path when it occurs in one of its names)
DotGitInRoot(p) == \E i \in 1..Len(p) : p[i] \in NamesContainingDotGit

\* item.stat().st_size: a marker is empty, a file of the tests holds "payload"
st_size(p) == IF Basename(p) = gitkeep_name THEN 0 ELSE 7

RECURSIVE SumSizes(_)
SumSizes(files) ==
    IF files = {} THEN 0
    ELSE LET p == CHOOSE q \in files : TRUE
         IN  st_size(p) + SumSizes(files \ {p})

\* the files the GitPython branch counts: rglob('*'), is_file, '.git' not in parts
CountedByRglob(t) ==
    {p \in t.files : WalkYields(t, Parent(p)) /\ ~InGitParts(p)}
\* the files the subprocess branch counts: os.walk, skipping a root with '.git' in it
CountedByWalk(t) ==
    {p \in t.files : WalkYields(t, Parent(p)) /\ ~DotGitInRoot(Parent(p))}

\* the files `git add .` stages: every file outside .git that the ignore
\* rules do not exclude
StagedByGit(t) ==
    {p \in t.files : WalkYields(t, Parent(p)) /\ ~InGitParts(p) /\ p \notin t.ignored}
GitAddEffect(g, t) == [g EXCEPT !.staged = Cardinality(StagedByGit(t))]

\* GitService.stage_all_files (try/except Exception around everything)
stage_all_files(repo, o, t) ==
    IF o # "ok"
    THEN [file_count |-> 0, total_size |-> 0, done |-> FALSE, raised |-> FALSE]
    ELSE IF GITPYTHON_AVAILABLE /\ repo
         THEN [file_count |-> Cardinality(CountedByRglob(t)),
               total_size |-> SumSizes(CountedByRglob(t)), done |-> TRUE,
               raised |-> FALSE]
         ELSE [file_count |-> Cardinality(CountedByWalk(t)),
               total_size |-> SumSizes(CountedByWalk(t)), done |-> TRUE,
               raised |-> FALSE]

\* GitService.commit without the test of the message (lines 206-222 alone)
commit_AnyMessage(repo, message, o) ==
    [ret |-> o = "ok", invoked |-> TRUE, done |-> o = "ok", raised |-> FALSE]

\* GitService.commit: `not message or not message.strip()` returns False
\* before the tool is touched
commit(repo, message, o) ==
    IF message = <<>> \/ strip(message) = <<>>
    THEN [ret |-> FALSE, invoked |-> FALSE, done |-> FALSE, raised |-> FALSE]
    ELSE [ret |-> o = "ok", invoked |-> TRUE, done |-> o = "ok", raised |-> FALSE]

\* GitService.add_remote without the removal of an existing origin
add_remote_NoRemove(repo, url, origin, o_remove, o_add) ==
    IF o_add = "ok" /\ origin = NoRemote
    THEN [ret |-> TRUE, origin |-> url, raised |-> FALSE]
    ELSE [ret |-> FALSE, origin |-> origin, raised |-> FALSE]

\* GitService.add_remote: remove origin (the result is ignored, and so is
\* what GitPython raises), then add it.  An error thrown by the subprocess
\* removal ends the call before the add.  The tool adds origin only when
\* there is none (left).
add_remote(repo, url, origin, o_remove, o_add) ==
    LET removed == IF o_remove = "ok" THEN NoRemote ELSE origin
    IN  IF ~(GITPYTHON_AVAILABLE /\ repo) /\ o_remove = "raise"
        THEN [ret |-> FALSE, origin |-> origin, raised |-> FALSE]
        ELSE IF o_add = "ok" /\ removed = NoRemote
             THEN [ret |-> TRUE, origin |-> url, raised |-> FALSE]
             ELSE [ret |-> FALSE, origin |-> removed, raised |-> FALSE]

\* GitService.rename_branch: the GitPython branch returns True whatever
\* happens; the subprocess branch also accepts a failure whose stderr says
\* 'already exists'.
rename_branch(repo, o) ==
    IF GITPYTHON_AVAILABLE /\ repo
    THEN [ret |-> TRUE, done |-> o = "ok", raised |-> FALSE]
    ELSE [ret |-> o \in {"ok", "fail_already_exists"}, done |-> o = "ok",
          raised |-> FALSE]

\* GitService.push
push(repo, o) == [ret |-> o = "ok", done |-> o = "ok", raised |-> FALSE]

(***************************************************************************)
(* utils/config.py.  A configuration is a dictionary: a function from its  *)
(* keys to their values.                                                   *)
(***************************************************************************)
EmptyDict == <<>>
JsonFile(config) == [state |-> "json", data |-> config]
\* the file after a write that broke off: json.load fails on it
CorruptFile == [state |-> "corrupt", data |-> EmptyDict]

\* how writing the file goes: it works, open() raises IOError, or the
\* write raises IOError after the file was truncated
IoOutcomes == {"ok", "open_fails", "write_fails"}

\* load_config: {} without a file and for a file that is no JSON
load_config(file) == IF file.state = "json" THEN file.data ELSE EmptyDict

Without(config, keys) == [k \in (DOMAIN config) \ keys |-> config[k]]
With(config, key, value) ==
    [k \in (DOMAIN config) \cup {key} |-> IF k = key THEN value ELSE config[k]]

WriteFileOutcome(config, file, io) ==
    CASE io = "ok" -> [ret |-> TRUE, file |-> JsonFile(config)]
      [] io = "open_fails" -> [ret |-> FALSE, file |-> file]
      [] OTHER -> [ret |-> FALSE, file |-> CorruptFile]

\* save_config that writes the dictionary as it is
save_config_Unfiltered(config, file, io) == WriteFileOutcome(config, file, io)

\* save_config: the keys 'token' and 'pat' are dropped, the rest is written
save_config(config, file, io) ==
    LET safe_config == Without(config, {"token", "pat"})
    IN  WriteFileOutcome(safe_config, file, io)

\* set_config_value
set_config_value(key, value, file, io) ==
    LET config == load_config(file)
    IN  IF key \in {"token", "pat"}
        THEN [ret |-> FALSE, file |-> file]
        ELSE save_config(With(config, key, value), file, io)

\* MainWindow._save_config: the fields of the form, stripped, without the token
FormConfig(f) ==
    [k \in {"folder_path", "repo_name", "visibility", "description", "commit_message"} |->
        CASE k = "folder_path" -> strip(f.folder_path)
          [] k = "repo_name" -> strip(f.repo_name)
          [] k = "visibility" -> f.visibility
          [] k = "description" -> strip(f.description)
          [] OTHER -> strip(f.commit_message)]
MainWindow_save_config(f, file, io) == save_config(FormConfig(f), file, io)

(***************************************************************************)
(* ui/main_window.py: the form, the start request and the UI event loop.   *)
(***************************************************************************)
MaxRuns == 2     \* worker threads started in one behaviour
MaxWaiting == 1  \* callbacks that may be waiting when a thread hands over more

ValidToken == ClassicPrefix \o Rep("a", MinClassicBody)
\* "Initial commit: add all files and subfolders"
DefaultCommitMessage ==
    <<"I", "n", "i", "t", "i", "a", "l", " ", "c", "o", "m",
      "m", "i", "t", ":", " ", "a", "d", "d", " ", "a", "l",
      "l", " ", "f", "i", "l", "e", "s", " ", "a", "n", "d",
      " ", "s", "u", "b", "f", "o", "l", "d", "e", "r", "s">>

\* on_clear_clicked, and the form as __init__ leaves it with no saved config
ClearedForm ==
    [folder_path |-> <<>>, token |-> <<>>, repo_name |-> <<>>,
     visibility |-> "private", description |-> <<>>,
     commit_message |-> DefaultCommitMessage]

\* What the user may have typed: a request every validator accepts (with
\* blanks around the entries), one with a bad name, one with a bad token.
\* The cleared form is the one with a bad folder.
FilledForm ==
    [folder_path |-> <<" ">> \o ProjectDir, token |-> ValidToken \o <<" ">>,
     repo_name |-> <<" ", "r">>, visibility |-> "public",
     description |-> <<"d", " ">>, commit_message |-> <<"m", " ">>]
FormInputs ==
    {FilledForm,
     [FilledForm EXCEPT !.repo_name = <<"n", "o", " ", "!">>],
     [FilledForm EXCEPT !.token = <<"s", "h", "o", "r", "t">>]}

\* Entries of a run's trace: the operations the worker invoked and the
\* status messages it emitted, in program order.
Op(name, ok, arg) == [k |-> "op", name |-> name, flag |-> ok, arg |-> arg]
Msg(text, error, arg) == [k |-> "msg", name |-> text, flag |-> error, arg |-> arg]
Info(text) == Msg(text, FALSE, <<>>)
IsMsg(e) == e.k = "msg"

\* Callbacks handed to the event loop with after(0, ...).
StatusCb(r, e) ==
    [cb |-> "status", run |-> r, text |-> e.name, error |-> e.flag, arg |-> e.arg]
UiStateCb(r, processing) ==
    [cb |-> "ui_state", run |-> r, text |-> "", error |-> FALSE, arg |-> processing]
HideProgressCb(r) ==
    [cb |-> "hide_progress", run |-> r, text |-> "", error |-> FALSE, arg |-> <<>>]

\* _update_status_thread_safe for each message of a step, in order
Posts(r, events) ==
    LET m == SelectSeq(events, IsMsg)
    IN  [i \in 1..Len(m) |-> StatusCb(r, m[i])]

\* The event loop keeps up: a thread hands over the callbacks of a step only
\* when few are still waiting.
CanPost == Len(uiQueue) <= MaxWaiting

\* threading.Thread(target=_create_repository_workflow, args=(...))
NewWorker(folder_path, token, repo_name, commit_message) ==
    [pc |-> "start", folder_path |-> folder_path, token |-> token,
     repo_name |-> repo_name, commit_message |-> commit_message,
     repo_url |-> <<>>, repo |-> FALSE, trace |-> <<>>, outcome |-> "running"]

\* A handler without the gate: every request starts a worker.
on_create_clicked_Ungated(f, processing, t) ==
    [start |-> TRUE, msg |-> ""]

\* on_create_clicked up to the decision: nothing happens while is_processing,
\* then the stripped inputs pass the folder, name and token validators and
\* the commit-message test in this order; the first rejection is reported.
on_create_clicked(f, processing, t) ==
    LET folder_path == strip(f.folder_path)
        token == strip(f.token)
        repo_name == strip(f.repo_name)
        commit_message == strip(f.commit_message)
    IN  IF processing THEN [start |-> FALSE, msg |-> ""]
        ELSE IF ~validate_folder_path(folder_path, t).valid
             THEN [start |-> FALSE, msg |-> validate_folder_path(folder_path, t).msg]
        ELSE IF ~validate_repository_name(repo_name).valid
             THEN [start |-> FALSE, msg |-> validate_repository_name(repo_name).msg]
        ELSE IF ~validate_token(token).valid
             THEN [start |-> FALSE, msg |-> validate_token(token).msg]
        ELSE IF commit_message = <<>>
             THEN [start |-> FALSE, msg |-> "Commit message cannot be empty"]
        ELSE [start |-> TRUE, msg |-> ""]

\* A click on the create button that starts nothing.
ClickRejected ==
    /\ widgets_enabled
    /\ ~on_create_clicked(form, is_processing, fs).start
    /\ status_shown' =
          IF on_create_clicked(form, is_processing, fs).msg = ""
          THEN status_shown
          ELSE on_create_clicked(form, is_processing, fs).msg
    /\ UNCHANGED <<fs, gkRuns, svcVars, libVars, form, is_processing, widgets_enabled, uiQueue,
                   sink, worker, remoteRepos, git>>

\* A click that starts a worker: _set_processing_state(True), thread.start().
\* accepted is no argument of the thread: it records what the form held at
\* this moment.
ClickAccepted ==
    /\ widgets_enabled
    /\ on_create_clicked(form, is_processing, fs).start
    /\ Len(worker) < MaxRuns
    /\ CanPost
    /\ is_processing' = TRUE
    /\ uiQueue' = Append(uiQueue, UiStateCb(Len(worker) + 1, TRUE))
    /\ worker' = Append(worker, NewWorker(strip(form.folder_path), strip(form.token),
                                          strip(form.repo_name), strip(form.commit_message))
                                @@ [accepted |-> form])
    /\ sink' = Append(sink, <<>>)
    /\ UNCHANGED <<fs, gkRuns, svcVars, libVars, form, widgets_enabled, status_shown, remoteRepos, git>>

\* The user edits the form; the entries accept input while they are enabled.
FillForm(f) ==
    /\ widgets_enabled
    /\ form # f
    /\ form' = f
    /\ UNCHANGED <<fs, gkRuns, svcVars, libVars, is_processing, widgets_enabled, status_shown,
                   uiQueue, sink, worker, remoteRepos, git>>

\* on_clear_clicked: the Clear button is never disabled; the cleared form
\* is saved to the configuration file.
ClearClicked ==
    /\ form' = ClearedForm
    /\ \E io \in IoOutcomes :
          CONFIG_FILE' = MainWindow_save_config(ClearedForm, CONFIG_FILE, io).file
    /\ status_shown' = "Fields cleared"
    /\ UNCHANGED <<fs, gkRuns, service, calls, libVars, is_processing, widgets_enabled,
                   uiQueue, sink, worker, remoteRepos, git>>

\* The event loop runs the oldest callback: update_status for a status line,
\* _update_ui_processing_state for a processing change, pack_forget for the
\* progress bar.
RunCallback ==
    /\ uiQueue # <<>>
    /\ LET c == Head(uiQueue)
       IN  /\ sink' = IF c.cb = "status"
                      THEN [sink EXCEPT ![c.run] =
                               Append(@, [text |-> c.text, error |-> c.error, arg |-> c.arg])]
                      ELSE sink
           /\ widgets_enabled' = IF c.cb = "ui_state" THEN ~c.arg ELSE widgets_enabled
    /\ uiQueue' = Tail(uiQueue)
    /\ UNCHANGED <<fs, gkRuns, svcVars, libVars, form, is_processing, status_shown, worker,
                   remoteRepos, git>>

(***************************************************************************)
(* ui/main_window.py: _create_repository_workflow on a worker thread.      *)
(***************************************************************************)
\* A workflow that goes on to init although create_repository raised.
StepAfter_ContinueAfterCreateError(pc, ret) ==
    CASE pc = "start" -> IF ret THEN "create" ELSE "finally"
      [] pc = "create" -> "init"
      [] pc = "init" -> IF ret THEN "gitkeep" ELSE "finally"
      [] pc = "gitkeep" -> IF ret THEN "stage" ELSE "finally"
      [] pc = "stage" -> "commit"
      [] pc = "commit" -> IF ret THEN "remote" ELSE "finally"
      [] pc = "remote" -> IF ret THEN "rename" ELSE "finally"
      [] pc = "rename" -> "push"
      [] pc = "push" -> IF ret THEN "success" ELSE "finally"
      [] pc = "success" -> "finally"
      [] OTHER -> "done"
\* A workflow that asks for the repository whatever the live check said.
StepAfter_CreateWithoutLiveCheck(pc, ret) ==
    CASE pc = "start" -> "create"
      [] pc = "create" -> IF ret THEN "init" ELSE "finally"
      [] pc = "init" -> IF ret THEN "gitkeep" ELSE "finally"
      [] pc = "gitkeep" -> IF ret THEN "stage" ELSE "finally"
      [] pc = "stage" -> "commit"
      [] pc = "commit" -> IF ret THEN "remote" ELSE "finally"
      [] pc = "remote" -> IF ret THEN "rename" ELSE "finally"
      [] pc = "rename" -> "push"
      [] pc = "push" -> IF ret THEN "success" ELSE "finally"
      [] pc = "success" -> "finally"
      [] OTHER -> "done"
\* A workflow that ends the run when rename_branch fails.
StepAfter_RenameIsHard(pc, ret) ==
    CASE pc = "start" -> IF ret THEN "create" ELSE "finally"
      [] pc = "create" -> IF ret THEN "init" ELSE "finally"
      [] pc = "init" -> IF ret THEN "gitkeep" ELSE "finally"
      [] pc = "gitkeep" -> IF ret THEN "stage" ELSE "finally"
      [] pc = "stage" -> "commit"
      [] pc = "commit" -> IF ret THEN "remote" ELSE "finally"
      [] pc = "remote" -> IF ret THEN "rename" ELSE "finally"
      [] pc = "rename" -> IF ret THEN "push" ELSE "finally"
      [] pc = "push" -> IF ret THEN "success" ELSE "finally"
      [] pc = "success" -> "finally"
      [] OTHER -> "done"
\* Where the workflow goes after a step, given what the step returned (or,
\* for create_repository and create_gitkeep_files, whether it returned at
\* all).  The result of stage_all_files is not examined; a failed rename only
\* changes the message.
StepAfter(pc, ret) ==
    CASE pc = "start" -> IF ret THEN "create" ELSE "finally"
      [] pc = "create" -> IF ret THEN "init" ELSE "finally"
      [] pc = "init" -> IF ret THEN "gitkeep" ELSE "finally"
      [] pc = "gitkeep" -> IF ret THEN "stage" ELSE "finally"
      [] pc = "stage" -> "commit"
      [] pc = "commit" -> IF ret THEN "remote" ELSE "finally"
      [] pc = "remote" -> IF ret THEN "rename" ELSE "finally"
      [] pc = "rename" -> "push"
      [] pc = "push" -> IF ret THEN "success" ELSE "finally"
      [] pc = "success" -> "finally"
      [] OTHER -> "done"

\* The step went through: the messages are handed to the event loop.
Continue(r, w2, events) ==
    /\ worker' = [worker EXCEPT ![r] = [w2 EXCEPT !.trace = @ \o events]]
    /\ uiQueue' = uiQueue \o Posts(r, events)
    /\ UNCHANGED is_processing

\* A failure branch that returns without a word.
FailReturn_Silent(r, w2, events, error) ==
    /\ worker' = [worker EXCEPT ![r] =
                     [w2 EXCEPT !.trace = @ \o events, !.outcome = "Failed"]]
    /\ uiQueue' = uiQueue \o Posts(r, events) \o <<UiStateCb(r, FALSE)>>
    /\ is_processing' = FALSE

\* if not <step>: _update_status_thread_safe(error, error=True);
\*                _set_processing_state(False); return
FailReturn(r, w2, events, error) ==
    LET all == Append(events, Msg(error, TRUE, <<>>))
    IN  /\ worker' = [worker EXCEPT ![r] =
                         [w2 EXCEPT !.trace = @ \o all, !.outcome = "Failed"]]
        /\ uiQueue' = uiQueue \o Posts(r, all) \o <<UiStateCb(r, FALSE)>>
        /\ is_processing' = FALSE

\* lines 483-494: the first two messages and the live token check
WfValidate(r) ==
    /\ worker[r].pc = "start"
    /\ CanPost
    /\ \E api \in ValidateApiOutcomes :
         LET w == worker[r]
             ret == GitHubService_validate_token(w.token, api)
             events == <<Info("Starting repository creation process..."),
                         Info("Creating GitHub repository..."),
                         Op("validate_token", ret, <<>>)>>
             w2 == [w EXCEPT !.pc = StepAfter("start", ret)]
         IN  IF ret
             THEN Continue(r, w2, events)
             ELSE FailReturn(r, w2, events, "Error: Invalid GitHub token")
    /\ UNCHANGED <<fs, gkRuns, svcVars, libVars, form, widgets_enabled, status_shown, sink,
                   remoteRepos, git>>

\* lines 496-504 and, when create_repository raises, 571-574.  visibility_var
\* and description_var are read here, on the worker thread.
WfCreate(r) ==
    /\ worker[r].pc = "create"
    /\ CanPost
    /\ \E api \in CreateApiOutcomes :
         LET w == worker[r]
             is_private == form.visibility = "private"
             description == strip(form.description)
             res == create_repository(w.repo_name, is_private, description, api)
             request == [name |-> w.repo_name, private |-> is_private,
                         description |-> description]
             w2 == [w EXCEPT !.pc = StepAfter("create", res.ok)]
         IN  /\ api = "created" => w.repo_name \notin RepoNames(remoteRepos)
             /\ IF res.ok
                THEN /\ remoteRepos' = remoteRepos \cup
                                         {NewRemote(w.repo_name, is_private, description)}
                     /\ Continue(r, [w2 EXCEPT !.repo_url = res.url],
                                 <<Op("create_repository", TRUE, request),
                                   Msg("GitHub repository created", FALSE, w.repo_name)>>)
                ELSE /\ remoteRepos' = remoteRepos
                     /\ Continue(r, [w2 EXCEPT !.outcome = "Failed"],
                                 <<Op("create_repository", FALSE, request),
                                   Msg(res.error, TRUE, <<>>)>>)
    /\ UNCHANGED <<fs, gkRuns, svcVars, libVars, form, widgets_enabled, status_shown, sink, git>>

\* lines 506-514
WfInit(r) ==
    /\ worker[r].pc = "init"
    /\ CanPost
    /\ \E o \in ToolOutcomes :
         LET w == worker[r]
             res == initialize_repo(GitService_init(fs), o)
             w2 == [w EXCEPT !.pc = StepAfter("init", res.ret), !.repo = res.repo]
         IN  /\ fs' = IF res.done THEN GitInitEffect(fs) ELSE fs
             /\ git' = IF res.done /\ <<GitDirName>> \notin fs.dirs THEN NewLocalRepo ELSE git
             /\ IF res.ret
                THEN Continue(r, w2, <<Info("Initializing Git repository..."),
                                       Op("initialize_repo", TRUE, <<>>),
                                       Info("Git repository initialized")>>)
                ELSE FailReturn(r, w2, <<Info("Initializing Git repository..."),
                                         Op("initialize_repo", FALSE, <<>>)>>,
                                "Error: Failed to initialize Git repository")
    /\ UNCHANGED <<gkRuns, svcVars, libVars, form, widgets_enabled, status_shown, sink, remoteRepos>>

\* lines 516-522
WfGitkeep(r) ==
    /\ worker[r].pc = "gitkeep"
    /\ CanPost
    /\ LET w == worker[r]
           res == create_gitkeep_files(fs)
           w2 == [w EXCEPT !.pc = StepAfter("gitkeep", ~res.raised)]
       IN  /\ fs' = res.tree
           /\ IF res.raised
              THEN Continue(r, [w2 EXCEPT !.outcome = "Failed"],
                            <<Info("Creating .gitkeep files for empty folders..."),
                              Op("create_gitkeep_files", FALSE, <<>>),
                              Msg("Error: Permission denied", TRUE, <<>>)>>)
              ELSE Continue(r, w2,
                            <<Info("Creating .gitkeep files for empty folders..."),
                              Op("create_gitkeep_files", TRUE, res.count),
                              Msg(IF res.count > 0 THEN "Created .gitkeep file(s)"
                                                   ELSE "No empty folders found",
                                  FALSE, res.count)>>)
    /\ UNCHANGED <<gkRuns, svcVars, libVars, form, widgets_enabled, status_shown, sink,
                   remoteRepos, git>>

\* lines 524-528: whatever stage_all_files returns is reported as staged
WfStage(r) ==
    /\ worker[r].pc = "stage"
    /\ CanPost
    /\ \E o \in ToolOutcomes :
         LET w == worker[r]
             res == stage_all_files(w.repo, o, fs)
             w2 == [w EXCEPT !.pc = StepAfter("stage", res.done)]
         IN  /\ git' = IF res.done THEN GitAddEffect(git, fs) ELSE git
             /\ Continue(r, w2, <<Info("Staging files..."),
                                  Op("stage_all_files", res.done, <<>>),
                                  Msg("Staged file(s)", FALSE,
                                      <<res.file_count, res.total_size>>)>>)
    /\ UNCHANGED <<fs, gkRuns, svcVars, libVars, form, widgets_enabled, status_shown, sink,
                   remoteRepos>>

\* lines 530-536
WfCommit(r) ==
    /\ worker[r].pc = "commit"
    /\ CanPost
    /\ \E o \in ToolOutcomes :
         LET w == worker[r]
             res == commit(w.repo, w.commit_message, o)
             w2 == [w EXCEPT !.pc = StepAfter("commit", res.ret)]
         IN  /\ git' = IF res.done THEN [git EXCEPT !.commits = @ + 1] ELSE git
             /\ IF res.ret
                THEN Continue(r, w2, <<Info("Creating commit..."),
                                       Op("commit", TRUE, <<>>),
                                       Info("Commit created")>>)
                ELSE FailReturn(r, w2, <<Info("Creating commit..."),
                                         Op("commit", FALSE, <<>>)>>,
                                "Error: Failed to create commit")
    /\ UNCHANGED <<fs, gkRuns, svcVars, libVars, form, widgets_enabled, status_shown, sink,
                   remoteRepos>>

\* lines 538-544.  The tool can remove origin only if there is one, and add
\* it only if there is none left.
WfRemote(r) ==
    /\ worker[r].pc = "remote"
    /\ CanPost
    /\ \E o_remove \in ToolOutcomes : \E o_add \in ToolOutcomes :
         LET w == worker[r]
             res == add_remote(w.repo, w.repo_url, git.origin, o_remove, o_add)
             w2 == [w EXCEPT !.pc = StepAfter("remote", res.ret)]
         IN  /\ o_remove = "ok" => git.origin # NoRemote
             /\ o_add = "ok" => (o_remove = "ok" \/ git.origin = NoRemote)
             /\ git' = [git EXCEPT !.origin = res.origin]
             /\ IF res.ret
                THEN Continue(r, w2, <<Info("Adding remote repository..."),
                                       Op("add_remote", TRUE, w.repo_url),
                                       Info("Remote added")>>)
                ELSE FailReturn(r, w2, <<Info("Adding remote repository..."),
                                         Op("add_remote", FALSE, w.repo_url)>>,
                                "Error: Failed to add remote")
    /\ UNCHANGED <<fs, gkRuns, svcVars, libVars, form, widgets_enabled, status_shown, sink,
                   remoteRepos>>

\* lines 546-551
WfRename(r) ==
    /\ worker[r].pc = "rename"
    /\ CanPost
    /\ \E o \in RenameOutcomes :
         LET w == worker[r]
             res == rename_branch(w.repo, o)
             w2 == [w EXCEPT !.pc = StepAfter("rename", res.ret)]
         IN  /\ git' = IF res.done THEN [git EXCEPT !.branch = "main"] ELSE git
             /\ Continue(r, w2,
                   <<Info("Renaming branch to 'main'..."),
                     Op("rename_branch", res.ret, <<>>),
                     Info(IF res.ret
                          THEN "Branch renamed to 'main'"
                          ELSE "Warning: Could not rename branch (may already be 'main')")>>)
    /\ UNCHANGED <<fs, gkRuns, svcVars, libVars, form, widgets_enabled, status_shown, sink,
                   remoteRepos>>

\* lines 553-559
WfPush(r) ==
    /\ worker[r].pc = "push"
    /\ CanPost
    /\ \E o \in ToolOutcomes :
         LET w == worker[r]
             res == push(w.repo, o)
             w2 == [w EXCEPT !.pc = StepAfter("push", res.ret)]
         IN  /\ o = "ok" => git.origin # NoRemote
             /\ git' = IF res.done THEN [git EXCEPT !.pushes = @ + 1] ELSE git
             /\ remoteRepos' =
                   IF res.done
                   THEN {IF rp.clone_url = git.origin THEN [rp EXCEPT !.pushed = TRUE] ELSE rp :
                            rp \in remoteRepos}
                   ELSE remoteRepos
             /\ IF res.ret
                THEN Continue(r, w2, <<Info("Pushing to GitHub..."),
                                       Op("push", TRUE, <<>>),
                                       Info("Pushed to GitHub")>>)
                ELSE FailReturn(r, w2, <<Info("Pushing to GitHub..."),
                                         Op("push", FALSE, <<>>)>>,
                                "Error: Failed to push to GitHub")
    /\ UNCHANGED <<fs, gkRuns, svcVars, libVars, form, widgets_enabled, status_shown, sink>>

\* lines 561-569
WfSuccess(r) ==
    /\ worker[r].pc = "success"
    /\ CanPost
    /\ LET w == worker[r]
           events == <<Info(""), Info("=========="),
                       Info("Repository creation completed successfully!"),
                       Msg("Repository URL", FALSE, w.repo_url),
                       Info("==========")>>
       IN  /\ worker' = [worker EXCEPT ![r] =
                            [w EXCEPT !.pc = StepAfter("success", TRUE),
                                      !.trace = @ \o events, !.outcome = "Succeeded"]]
           /\ uiQueue' = uiQueue \o Posts(r, events) \o <<HideProgressCb(r)>>
    /\ UNCHANGED <<fs, gkRuns, svcVars, libVars, form, is_processing, widgets_enabled, status_shown,
                   sink, remoteRepos, git>>

\* A workflow without the finally clause: the thread just ends.
WfFinally_KeepsFlag(r) ==
    /\ worker[r].pc = "finally"
    /\ CanPost
    /\ worker' = [worker EXCEPT ![r].pc = StepAfter("finally", TRUE)]
    /\ UNCHANGED <<fs, gkRuns, svcVars, libVars, form, is_processing, widgets_enabled,
                   status_shown, uiQueue, sink, remoteRepos, git>>

\* line 576: finally: _set_processing_state(False), on every way out
WfFinally(r) ==
    /\ worker[r].pc = "finally"
    /\ CanPost
    /\ is_processing' = FALSE
    /\ uiQueue' = Append(uiQueue, UiStateCb(r, FALSE))
    /\ worker' = [worker EXCEPT ![r].pc = StepAfter("finally", TRUE)]
    /\ UNCHANGED <<fs, gkRuns, svcVars, libVars, form, widgets_enabled, status_shown, sink,
                   remoteRepos, git>>

\* The folder the form names (ProjectDir): one file, one empty directory.
ProjectTree == [dirs |-> {<<>>, <<"a">>}, files |-> {<<"f">>},
                unreadable |-> {}, unwritable |-> {}, unsearchable |-> {},
                ignored |-> {}]

\* No window: the state the materializer tests run in.
NoWorkflow ==
    /\ GITPYTHON_AVAILABLE = TRUE
    /\ PYGITHUB_AVAILABLE = TRUE
    /\ form = ClearedForm
    /\ is_processing = FALSE
    /\ widgets_enabled = TRUE
    /\ status_shown = ""
    /\ uiQueue = <<>>
    /\ sink = <<>>
    /\ worker = <<>>
    /\ remoteRepos = {}
    /\ git = NewLocalRepo
    /\ service = NoService
    /\ CONFIG_FILE = MissingFile
    /\ calls = <<>>

\* MainWindow.__init__
Init ==
    /\ fs = ProjectTree
    /\ gkRuns = <<>>
    /\ GITPYTHON_AVAILABLE \in BOOLEAN
    /\ PYGITHUB_AVAILABLE \in BOOLEAN
    /\ form = ClearedForm
    /\ is_processing = FALSE
    /\ widgets_enabled = TRUE
    /\ status_shown = ""
    /\ uiQueue = <<>>
    /\ sink = <<>>
    /\ worker = <<>>
    /\ remoteRepos = {}
    /\ git = NewLocalRepo
    /\ service = NoService
    /\ CONFIG_FILE = MissingFile
    /\ calls = <<>>

Runs == 1..Len(worker)

Next ==
    \/ ClickRejected
    \/ ClickAccepted
    \/ \E f \in FormInputs : FillForm(f)
    \/ ClearClicked
    \/ RunCallback
    \/ \E r \in Runs : WfValidate(r)
    \/ \E r \in Runs : WfCreate(r)
    \/ \E r \in Runs : WfInit(r)
    \/ \E r \in Runs : WfGitkeep(r)
    \/ \E r \in Runs : WfStage(r)
    \/ \E r \in Runs : WfCommit(r)
    \/ \E r \in Runs : WfRemote(r)
    \/ \E r \in Runs : WfRename(r)
    \/ \E r \in Runs : WfPush(r)
    \/ \E r \in Runs : WfSuccess(r)
    \/ \E r \in Runs : WfFinally(r)

Spec == Init /\ [][Next]_vars

\* One step of the worker thread of run r.
WorkerNext(r) ==
    /\ r \in Runs
    /\ \/ WfValidate(r) \/ WfCreate(r) \/ WfInit(r) \/ WfGitkeep(r) \/ WfStage(r)
       \/ WfCommit(r) \/ WfRemote(r) \/ WfRename(r) \/ WfPush(r) \/ WfSuccess(r)
       \/ WfFinally(r)

\* The same program with its scheduling: a started thread keeps running
\* (every call it makes returns), and the event loop keeps running the
\* callbacks handed to it.  The user is under no obligation.
\* It starts with both libraries present and the form filled in, and the
\* user clicks the create button or Clear, or does nothing.
FairInit ==
    /\ fs = ProjectTree
    /\ gkRuns = <<>>
    /\ GITPYTHON_AVAILABLE = TRUE
    /\ PYGITHUB_AVAILABLE = TRUE
    /\ form = FilledForm
    /\ is_processing = FALSE
    /\ widgets_enabled = TRUE
    /\ status_shown = ""
    /\ uiQueue = <<>>
    /\ sink = <<>>
    /\ worker = <<>>
    /\ remoteRepos = {}
    /\ git = NewLocalRepo
    /\ service = NoService
    /\ CONFIG_FILE = MissingFile
    /\ calls = <<>>

FairNext ==
    \/ ClickRejected
    \/ ClickAccepted
    \/ ClearClicked
    \/ RunCallback
    \/ \E r \in Runs : WorkerNext(r)

SpecFair ==
    /\ FairInit
    /\ [][FairNext]_vars
    /\ \A r \in 1..MaxRuns : WF_vars(WorkerNext(r))
    /\ WF_vars(RunCallback)

(***************************************************************************)
(* The materializer on its own: a test builds a tree, then calls           *)
(* create_gitkeep_files on it, once or twice in a row.                     *)
(***************************************************************************)
DirPaths == UNION {[1..n -> DirNames] : n \in 1..MaxDepth}

Building == gkRuns = <<>>

Mkdir(p) ==
    /\ Building
    /\ p \notin fs.dirs
    /\ Parent(p) \in fs.dirs
    /\ EntryCount(fs) < MaxEntries
    /\ fs' = [fs EXCEPT !.dirs = @ \cup {p}]
    /\ UNCHANGED <<gkRuns, svcVars, wfVars>>

WriteFile(d, n) ==
    /\ Building
    /\ d \in fs.dirs
    /\ (d \o <<n>>) \notin fs.files
    /\ EntryCount(fs) < MaxEntries
    /\ fs' = [fs EXCEPT !.files = @ \cup {d \o <<n>>}]
    /\ UNCHANGED <<gkRuns, svcVars, wfVars>>

DenyRead(d) ==
    /\ Building
    /\ d \in fs.dirs
    /\ d \notin fs.unreadable
    /\ FaultCount(fs) < MaxFaults
    /\ fs' = [fs EXCEPT !.unreadable = @ \cup {d}]
    /\ UNCHANGED <<gkRuns, svcVars, wfVars>>

DenyWrite(d) ==
    /\ Building
    /\ d \in fs.dirs
    /\ d \notin fs.unwritable
    /\ FaultCount(fs) < MaxFaults
    /\ fs' = [fs EXCEPT !.unwritable = @ \cup {d}]
    /\ UNCHANGED <<gkRuns, svcVars, wfVars>>

DenySearch(d) ==
    /\ Building
    /\ d \in fs.dirs
    /\ d \notin fs.unsearchable
    /\ FaultCount(fs) < MaxFaults
    /\ fs' = [fs EXCEPT !.unsearchable = @ \cup {d}]
    /\ UNCHANGED <<gkRuns, svcVars, wfVars>>

GkCall ==
    LET r == create_gitkeep_files(fs)
    IN  /\ fs' = r.tree
        /\ gkRuns' = Append(gkRuns, [before |-> fs, after |-> r.tree, count |-> r.count,
                                     raised |-> r.raised])
        /\ UNCHANGED <<svcVars, wfVars>>

\* service.create_gitkeep_files() on the tree the test built
GkFirstCall == Building /\ GkCall

\* the same call again, directly after the first
GkSecondCall == Len(gkRuns) = 1 /\ GkCall

GkInit ==
    /\ fs = EmptyTree
    /\ gkRuns = <<>>
    /\ NoWorkflow

GkNext ==
    \/ \E p \in DirPaths : Mkdir(p)
    \/ \E d \in DirPaths \cup {<<>>} : \E n \in FileNames : WriteFile(d, n)
    \/ \E d \in DirPaths \cup {<<>>} : DenyRead(d)
    \/ \E d \in DirPaths \cup {<<>>} : DenyWrite(d)
    \/ \E d \in DirPaths \cup {<<>>} : DenySearch(d)
    \/ GkFirstCall
    \/ GkSecondCall

SpecGitkeep == GkInit /\ [][GkNext]_vars

(***************************************************************************)
(* The git service on its own: a test makes a GitService for a working     *)
(* directory and calls its operations, as src/test_step_2_4.py does.       *)
(***************************************************************************)
MaxCalls == 2

Urls == {clone_url(<<"r">>), clone_url(<<"s">>)}
Messages == {<<>>, <<" ", "\t", "\n">>, <<"m">>, <<" ", "m", " ">>}

\* the tree that holds the given files, of which the ignore rules exclude some
TreeOf(files, ignored) ==
    [EmptyTree EXCEPT
        !.dirs = {<<>>} \cup UNION {{SubSeq(p, 1, i) : i \in 0..(Len(p) - 1)} : p \in files},
        !.files = files,
        !.ignored = ignored]

GitConfig == <<GitDirName, "f">>
StageTrees ==
    {TreeOf({}, {}),
     TreeOf({GitConfig, <<"f">>, <<"a", "f">>}, {}),
     TreeOf({GitConfig, <<"f">>, <<"a", "f">>}, {<<"a", "f">>}),
     TreeOf({GitConfig, <<"f">>, <<"a", gitkeep_name>>}, {<<"f">>}),
     TreeOf({GitConfig, <<"f">>, <<GithubDirName, "f">>}, {})}

HasRepository(t) == <<GitDirName>> \in t.dirs
\* outside a repository the tool fails whatever it is asked
ToolCan(o) == o = "ok" => HasRepository(fs)

Snapshot(g, t) == [git |-> g, fs |-> t]

Called(op, arg, tool, ret, raised, invoked, g2, t2) ==
    /\ Len(calls) < MaxCalls
    /\ calls' = Append(calls, [op |-> op, arg |-> arg, tool |-> tool,
                               handle |-> service.repo,
                               before |-> Snapshot(git, fs), after |-> Snapshot(g2, t2),
                               ret |-> ret, raised |-> raised, invoked |-> invoked])
    /\ git' = g2
    /\ fs' = t2
    /\ UNCHANGED <<gkRuns, CONFIG_FILE, libVars, form, is_processing, widgets_enabled, status_shown,
                   uiQueue, sink, worker, remoteRepos>>

GsInitializeRepo(o) ==
    LET res == initialize_repo(service.repo, o)
    IN  /\ service' = [service EXCEPT !.repo = res.repo]
        /\ Called("initialize_repo", <<>>, <<o>>, res.ret, res.raised, TRUE,
                  IF res.done /\ ~HasRepository(fs) THEN NewLocalRepo ELSE git,
                  IF res.done THEN GitInitEffect(fs) ELSE fs)

GsStageAllFiles(o) ==
    LET res == stage_all_files(service.repo, o, fs)
    IN  /\ ToolCan(o)
        /\ UNCHANGED service
        /\ Called("stage_all_files", <<>>, <<o>>, <<res.file_count, res.total_size>>,
                  res.raised, TRUE,
                  IF res.done THEN GitAddEffect(git, fs) ELSE git, fs)

GsCommit(message, o) ==
    LET res == commit(service.repo, message, o)
    IN  /\ ToolCan(o)
        /\ UNCHANGED service
        /\ Called("commit", message, <<o>>, res.ret, res.raised, res.invoked,
                  IF res.done THEN [git EXCEPT !.commits = @ + 1] ELSE git, fs)

\* The tool can remove origin only if there is one.
GsAddRemote(url, o_remove, o_add) ==
    LET res == add_remote(service.repo, url, git.origin, o_remove, o_add)
    IN  /\ ToolCan(o_remove)
        /\ ToolCan(o_add)
        /\ o_remove = "ok" => git.origin # NoRemote
        /\ UNCHANGED service
        /\ Called("add_remote", url, <<o_remove, o_add>>, res.ret, res.raised, TRUE,
                  [git EXCEPT !.origin = res.origin], fs)

GsRenameBranch(o) ==
    LET res == rename_branch(service.repo, o)
    IN  /\ ToolCan(o)
        /\ UNCHANGED service
        /\ Called("rename_branch", <<>>, <<o>>, res.ret, res.raised, TRUE,
                  IF res.done THEN [git EXCEPT !.branch = "main"] ELSE git, fs)

GsPush(o) ==
    LET res == push(service.repo, o)
    IN  /\ ToolCan(o)
        /\ o = "ok" => git.origin # NoRemote
        /\ UNCHANGED service
        /\ Called("push", <<>>, <<o>>, res.ret, res.raised, TRUE,
                  IF res.done THEN [git EXCEPT !.pushes = @ + 1] ELSE git, fs)

\* no window and no worker
NoWindow ==
    /\ form = ClearedForm
    /\ is_processing = FALSE
    /\ widgets_enabled = TRUE
    /\ status_shown = ""
    /\ uiQueue = <<>>
    /\ sink = <<>>
    /\ worker = <<>>

\* GitService(repo_path) on a directory that may hold a repository, whose
\* origin may be set
GsInit ==
    /\ fs \in StageTrees
    /\ gkRuns = <<>>
    /\ GITPYTHON_AVAILABLE \in BOOLEAN
    /\ PYGITHUB_AVAILABLE = TRUE
    /\ NoWindow
    /\ remoteRepos = {}
    /\ git \in {[NewLocalRepo EXCEPT !.origin = u] :
                   u \in IF HasRepository(fs) THEN {NoRemote} \cup Urls ELSE {NoRemote}}
    /\ service = [repo |-> GitService_init(fs)]
    /\ CONFIG_FILE = MissingFile
    /\ calls = <<>>

GsNext ==
    \/ \E o \in ToolOutcomes : GsInitializeRepo(o)
    \/ \E o \in ToolOutcomes : GsStageAllFiles(o)
    \/ \E m \in Messages : \E o \in ToolOutcomes : GsCommit(m, o)
    \/ \E u \in Urls : \E o_remove \in ToolOutcomes : \E o_add \in ToolOutcomes :
          GsAddRemote(u, o_remove, o_add)
    \/ \E o \in RenameOutcomes : GsRenameBranch(o)
    \/ \E o \in ToolOutcomes : GsPush(o)

SpecGitService == GsInit /\ [][GsNext]_vars

(***************************************************************************)
(* The validators on their own: a test picks one input and calls the       *)
(* validators on it, as src/test_step_2_1.py does.                         *)
(***************************************************************************)
MaxShortName == 3

NameAlphabet == {"a", "Z", "1", "-", "_", ".", "!", "\n"}
ShortNames == UNION {[1..n -> NameAlphabet] : n \in 0..MaxShortName}
LongNames ==
    {Rep("a", MaxNameLen), Rep("a", MaxNameLen + 1),
     Rep("a", MaxNameLen - 1) \o <<".">>, Rep("a", MaxNameLen) \o <<"\n">>}
NameInputs == ShortNames \cup LongNames

TokenPrefixes == {<<>>, ClassicPrefix, FineGrainedPrefix, <<"g", "h", "o", "_">>}
TokenLengths ==
    {10, MinTokenLen - 1, MinTokenLen, MinClassicLen - 1, MinClassicLen, 45,
     MinFineGrainedLen - 1, MinFineGrainedLen, MinFineGrainedLen + 1}
TokenFill == {"a", "7", "_", "!"}
TokenInputs ==
    {<<>>, <<"s", "h", "o", "r", "t">>}
      \cup {prefix \o Rep(c, n - Len(prefix)) :
               prefix \in TokenPrefixes, n \in TokenLengths, c \in TokenFill}
      \cup {prefix \o Rep("a", n - Len(prefix) - 1) \o <<"\n">> :
               prefix \in TokenPrefixes \ {<<>>}, n \in {MinClassicLen + 1, MinFineGrainedLen + 2}}

FolderInputs == {<<>>, MissingPath, PlainFile, ProjectDir}
FolderTrees ==
    {EmptyTree,
     [EmptyTree EXCEPT !.dirs = @ \cup {<<GitDirName>>}],
     [EmptyTree EXCEPT !.files = {<<"f">>}],
     [EmptyTree EXCEPT !.unreadable = {<<>>}],
     [EmptyTree EXCEPT !.unsearchable = {<<>>}],
     [EmptyTree EXCEPT !.dirs = @ \cup {<<GitDirName>>}, !.unreadable = {<<>>}]}

\* the entries a test fills: one of the three, the others left as cleared
ValidationInputs ==
    {[ClearedForm EXCEPT !.repo_name = n] : n \in NameInputs}
      \cup {[ClearedForm EXCEPT !.token = k] : k \in TokenInputs}
      \cup {[ClearedForm EXCEPT !.folder_path = d] : d \in FolderInputs}

Validated(op, arg, ret) ==
    /\ calls' = Append(calls, [op |-> op, arg |-> arg, tree |-> fs, ret |-> ret])
    /\ UNCHANGED <<fs, gkRuns, service, CONFIG_FILE, wfVars>>

VsValidateFolderPath ==
    LET ret == validate_folder_path(form.folder_path, fs)
    IN  /\ Len(calls) < MaxCalls
        /\ Validated("validate_folder_path", form.folder_path, ret)

VsValidateRepositoryName ==
    LET ret == validate_repository_name(form.repo_name)
    IN  /\ Len(calls) < MaxCalls
        /\ Validated("validate_repository_name", form.repo_name, ret)

VsValidateToken ==
    LET ret == validate_token(form.token)
    IN  /\ Len(calls) < MaxCalls
        /\ Validated("validate_token", form.token, ret)

VsInit ==
    /\ form \in ValidationInputs
    /\ fs \in IF form.folder_path = ProjectDir THEN FolderTrees ELSE {EmptyTree}
    /\ gkRuns = <<>>
    /\ GITPYTHON_AVAILABLE = TRUE
    /\ PYGITHUB_AVAILABLE = TRUE
    /\ is_processing = FALSE
    /\ widgets_enabled = TRUE
    /\ status_shown = ""
    /\ uiQueue = <<>>
    /\ sink = <<>>
    /\ worker = <<>>
    /\ remoteRepos = {}
    /\ git = NewLocalRepo
    /\ service = NoService
    /\ CONFIG_FILE = MissingFile
    /\ calls = <<>>

VsNext ==
    \/ VsValidateFolderPath
    \/ VsValidateRepositoryName
    \/ VsValidateToken

SpecValidation == VsInit /\ [][VsNext]_vars

(***************************************************************************)
(* The hosting service on its own: a test makes a GitHubService for a      *)
(* token and calls it, the provider answering as its state demands or with *)
(* a fault (src/test_step_2_5.py mocks the same answers).                  *)
(***************************************************************************)
\* a token the provider has revoked: well formed, but not ValidToken
RevokedToken == ClassicPrefix \o Rep("b", MinClassicBody)
HubTokens == {<<>>, ValidToken, RevokedToken}
\* names asked for: two the provider takes, and two it refuses as invalid
HubNames == {<<"r">>, <<"s">>, <<>>, Rep("a", MaxNameLen + 1)}
ProviderRefuses(name) == name = <<>> \/ Len(name) > MaxNameLen

\* why the provider answers a creation request as it does, and the status
\* of the GithubException (or the error) the library raises for it
CreateCauses ==
    {"created", "already_exists", "invalid_name", "authentication_failed", "server_error",
     "network"}
StatusOf(cause) ==
    CASE cause = "created" -> "created"
      [] cause \in {"already_exists", "invalid_name"} -> "422"
      [] cause = "authentication_failed" -> "401"
      [] cause = "server_error" -> "500"
      [] OTHER -> "network"

\* the causes the provider's state allows for a request
CauseCan(cause, name, token) ==
    CASE cause = "created" ->
            /\ token = ValidToken
            /\ ~ProviderRefuses(name)
            /\ name \notin RepoNames(remoteRepos)
      [] cause = "already_exists" -> token = ValidToken /\ name \in RepoNames(remoteRepos)
      [] cause = "invalid_name" -> token = ValidToken /\ ProviderRefuses(name)
      [] cause = "authentication_failed" -> token # ValidToken
      [] OTHER -> TRUE

GhValidateToken(api) ==
    LET ret == GitHubService_validate_token(form.token, api)
    IN  /\ Len(calls) < MaxCalls
        /\ api = "ok" => form.token = ValidToken
        /\ api = "unauthorized" => form.token # ValidToken
        /\ calls' = Append(calls, [op |-> "validate_token", arg |-> form.token,
                                   api |-> api, lib |-> PYGITHUB_AVAILABLE, ret |-> ret])
        /\ UNCHANGED <<fs, gkRuns, service, CONFIG_FILE, wfVars>>

\* what the provider makes of a creation request
Described(request) == IF request.description = None THEN <<>> ELSE request.description
ProviderCreates(request) ==
    [NewRemote(request.name, request.private, Described(request))
        EXCEPT !.auto_init = request.auto_init]

GhCreateRepository(name, cause) ==
    LET is_private == form.visibility = "private"
        res == create_repository(name, is_private, form.description, StatusOf(cause))
    IN  /\ Len(calls) < MaxCalls
        /\ CauseCan(cause, name, form.token)
        /\ calls' = Append(calls, [op |-> "create_repository", arg |-> name,
                                   private |-> is_private,
                                   description |-> form.description,
                                   api |-> cause, lib |-> PYGITHUB_AVAILABLE,
                                   response |-> IF res.ok THEN ProviderCreates(res.request)
                                                          ELSE NoRequest,
                                   ret |-> res])
        /\ remoteRepos' =
              IF res.ok THEN remoteRepos \cup {ProviderCreates(res.request)} ELSE remoteRepos
        /\ UNCHANGED <<fs, gkRuns, service, CONFIG_FILE, libVars, form, is_processing, widgets_enabled,
                       status_shown, uiQueue, sink, worker, git>>

\* The provider finds a repository only if it holds it, and reports it
\* missing only if it does not.
GhCheckRepositoryExists(name, api) ==
    LET ret == check_repository_exists(name, api)
    IN  /\ Len(calls) < MaxCalls
        /\ api = "found" => (form.token = ValidToken /\ name \in RepoNames(remoteRepos))
        /\ api = "not_found" => name \notin RepoNames(remoteRepos)
        /\ calls' = Append(calls, [op |-> "check_repository_exists", arg |-> name,
                                   api |-> api, lib |-> PYGITHUB_AVAILABLE,
                                   present |-> name \in RepoNames(remoteRepos),
                                   ret |-> ret])
        /\ UNCHANGED <<fs, gkRuns, service, CONFIG_FILE, wfVars>>

\* GitHubService(token), with or without the library, at a provider that
\* may hold the repository "r" already
GhInit ==
    /\ fs = EmptyTree
    /\ gkRuns = <<>>
    /\ GITPYTHON_AVAILABLE = TRUE
    /\ PYGITHUB_AVAILABLE \in BOOLEAN
    /\ form \in {[ClearedForm EXCEPT !.token = k, !.visibility = v, !.description = d] :
                    k \in HubTokens, v \in {"private", "public"},
                    d \in {<<>>, <<"d", " ", "e">>}}
    /\ is_processing = FALSE
    /\ widgets_enabled = TRUE
    /\ status_shown = ""
    /\ uiQueue = <<>>
    /\ sink = <<>>
    /\ worker = <<>>
    /\ remoteRepos \in {{}, {NewRemote(<<"r">>, TRUE, <<>>)}}
    /\ git = NewLocalRepo
    /\ service = NoService
    /\ CONFIG_FILE = MissingFile
    /\ calls = <<>>

GhNext ==
    \/ \E api \in ValidateApiOutcomes : GhValidateToken(api)
    \/ \E name \in HubNames : \E cause \in CreateCauses : GhCreateRepository(name, cause)
    \/ \E name \in HubNames : \E api \in ExistsApiOutcomes :
          GhCheckRepositoryExists(name, api)

SpecGitHub == GhInit /\ [][GhNext]_vars

(***************************************************************************)
(* The configuration file on its own: the functions of utils/config.py     *)
(* called with any dictionary and key, and the window saving its form      *)
(* (after an edit, after Browse, on Clear and on exit).                    *)
(***************************************************************************)
ConfigKeys == {"repo_name", "token", "pat"}
ConfigValues == {<<"v">>, ValidToken}
ConfigDicts == UNION {[keys -> ConfigValues] : keys \in SUBSET ConfigKeys}

\* calls keeps the last call only: a sequence of calls has no bound
Saved(op, arg, res) ==
    /\ CONFIG_FILE' = res.file
    /\ calls' = <<[op |-> op, arg |-> arg, before |-> CONFIG_FILE, after |-> res.file,
                   ret |-> res.ret]>>
    /\ UNCHANGED <<fs, gkRuns, service, libVars, is_processing, widgets_enabled,
                   status_shown, uiQueue, sink, worker, remoteRepos, git>>

CfSaveConfig(config, io) ==
    LET res == save_config(config, CONFIG_FILE, io)
    IN  /\ Saved("save_config", config, res)
        /\ UNCHANGED form

CfSetConfigValue(key, value, io) ==
    LET res == set_config_value(key, value, CONFIG_FILE, io)
    IN  /\ Saved("set_config_value", <<key, value>>, res)
        /\ UNCHANGED form

\* the user types: the entries change, the save comes a second later
CfEdit(f) ==
    /\ form # f
    /\ form' = f
    /\ UNCHANGED <<fs, gkRuns, svcVars, libVars, is_processing, widgets_enabled,
                   status_shown, uiQueue, sink, worker, remoteRepos, git>>

\* the timer of _setup_config_autosave fires
CfAutosave(io) ==
    LET res == MainWindow_save_config(form, CONFIG_FILE, io)
    IN  /\ Saved("autosave", <<>>, res)
        /\ UNCHANGED form

\* on_browse_clicked
CfBrowse(folder, io) ==
    LET f == [form EXCEPT !.folder_path = folder]
        res == MainWindow_save_config(f, CONFIG_FILE, io)
    IN  /\ folder # <<>>
        /\ form' = f
        /\ Saved("browse", folder, res)

\* on_clear_clicked
CfClear(io) ==
    LET res == MainWindow_save_config(ClearedForm, CONFIG_FILE, io)
    IN  /\ form' = ClearedForm
        /\ Saved("clear", <<>>, res)

\* on_exit_clicked
CfExit(io) ==
    LET res == MainWindow_save_config(form, CONFIG_FILE, io)
    IN  /\ Saved("exit", <<>>, res)
        /\ UNCHANGED form

CfInit ==
    /\ fs = ProjectTree
    /\ gkRuns = <<>>
    /\ GITPYTHON_AVAILABLE = TRUE
    /\ PYGITHUB_AVAILABLE = TRUE
    /\ NoWindow
    /\ remoteRepos = {}
    /\ git = NewLocalRepo
    /\ service = NoService
    /\ CONFIG_FILE = MissingFile
    /\ calls = <<>>

CfNext ==
    \/ \E config \in ConfigDicts : \E io \in IoOutcomes : CfSaveConfig(config, io)
    \/ \E key \in ConfigKeys : \E value \in ConfigValues : \E io \in IoOutcomes :
          CfSetConfigValue(key, value, io)
    \/ \E f \in FormInputs : CfEdit(f)
    \/ \E io \in IoOutcomes : CfAutosave(io)
    \/ \E folder \in {ProjectDir, MissingPath} : \E io \in IoOutcomes : CfBrowse(folder, io)
    \/ \E io \in IoOutcomes : CfClear(io)
    \/ \E io \in IoOutcomes : CfExit(io)

SpecConfig == CfInit /\ [][CfNext]_vars

(***************************************************************************)
(* Properties of the materializer (checked under SpecGitkeep).             *)
(* The predicates below restate the claims over the tree before the call;  *)
(* they do not use is_empty_leaf_folder.                                   *)
(***************************************************************************)
NoFaults(t) == t.unreadable = {} /\ t.unwritable = {} /\ t.unsearchable = {}
MarkerOf(d) == d \o <<gitkeep_name>>
HoldsMarker(t, d) == MarkerOf(d) \in t.files
OutsideGit(d) == \A i \in 1..Len(d) : d[i] # ".git"
EntriesOf(t, d) ==
    {p \in t.dirs \cup t.files : Len(p) = Len(d) + 1 /\ SubSeq(p, 1, Len(d)) = d}
HasSubdirOtherThanGit(t, d) ==
    \E p \in EntriesOf(t, d) : p \in t.dirs /\ p[Len(p)] # ".git"
HasNonMarkerFile(t, d) ==
    \E p \in EntriesOf(t, d) : p \in t.files /\ p[Len(p)] # ".gitkeep"
SubtreeHasRegularFile(t, d) ==
    \E p \in t.files : Len(p) > Len(d) /\ SubSeq(p, 1, Len(d)) = d
Created(run) == run.after.files \ run.before.files

Faulty(t) == t.unreadable \cup t.unwritable \cup t.unsearchable
Qualifies(t, d) ==
    OutsideGit(d) /\ ~HasSubdirOtherThanGit(t, d) /\ ~HasNonMarkerFile(t, d)

\* C11: whatever directories cannot be read or written, the call returns
\* normally, every qualifying directory that has no fault itself holds a
\* marker afterwards, and the count returned is the number of markers the
\* call created.
C11_FailsSoftPerDirectory ==
    \A i \in 1..Len(gkRuns) :
        LET b == gkRuns[i].before
            a == gkRuns[i].after
        IN  /\ ~gkRuns[i].raised
            /\ \A d \in b.dirs \ Faulty(b) : Qualifies(b, d) => HoldsMarker(a, d)
            /\ gkRuns[i].count = Cardinality(Created(gkRuns[i]))

(***************************************************************************)
(* Properties of the git service (checked under SpecGitService).           *)
(***************************************************************************)
CallsOf(op) == {i \in 1..Len(calls) : calls[i].op = op}
Blank(message) == \A k \in 1..Len(message) : message[k] \in Whitespace

\* C12: commit with an empty or whitespace-only message returns failure,
\* does not invoke the version-control tool and leaves the repository and
\* the working directory as they were.
C12_BlankMessageCommitsNothing ==
    \A i \in CallsOf("commit") :
        Blank(calls[i].arg) =>
            /\ calls[i].ret = FALSE
            /\ ~calls[i].raised
            /\ ~calls[i].invoked
            /\ calls[i].after = calls[i].before

\* a whitespace-only message was committed where the tool would have
\* succeeded
C12_Witness ==
    \E i \in CallsOf("commit") :
        /\ calls[i].arg # <<>>
        /\ Blank(calls[i].arg)
        /\ calls[i].tool = <<"ok">>
        /\ HasRepository(calls[i].before.fs)
        /\ calls[i].ret = FALSE

\* The tool did what it was asked: it removed the origin there was, and
\* added the new one.
RemoteToolWorked(c) ==
    /\ c.before.git.origin # NoRemote => c.tool[1] = "ok"
    /\ c.tool[2] = "ok"

\* C13: a successful add_remote(url) leaves origin pointing at url whatever
\* origin was before and changes nothing else, and a second add_remote(url)
\* right after it succeeds and leaves the same state.
C13_AddRemoteIsIdempotent ==
    /\ \A i \in CallsOf("add_remote") :
          calls[i].ret =>
              /\ calls[i].after.git = [calls[i].before.git EXCEPT !.origin = calls[i].arg]
              /\ calls[i].after.fs = calls[i].before.fs
    /\ \A i \in CallsOf("add_remote") :
          (/\ calls[i].ret
           /\ (i + 1) \in CallsOf("add_remote")
           /\ calls[i + 1].arg = calls[i].arg
           /\ RemoteToolWorked(calls[i + 1]))
            => /\ calls[i + 1].ret
               /\ ~calls[i + 1].raised
               /\ calls[i + 1].after = calls[i].after

\* origin pointed somewhere else, and add_remote(url) succeeded twice in a row
C13_Witness ==
    /\ Len(calls) = 2
    /\ CallsOf("add_remote") = {1, 2}
    /\ calls[1].before.git.origin \notin {NoRemote, calls[1].arg}
    /\ calls[2].arg = calls[1].arg
    /\ calls[1].ret
    /\ calls[2].ret
    /\ calls[2].after.git.origin = calls[1].arg

BooleanOps == {"initialize_repo", "commit", "add_remote", "rename_branch", "push"}
\* the underlying tool exited non-zero or threw an error
ToolFault(c) == \E k \in 1..Len(c.tool) : c.tool[k] # "ok"
\* for add_remote the fault that counts is one of the add (a removal that
\* finds no origin is no fault)
OperationFault(c) ==
    IF c.op = "add_remote"
    THEN c.tool[2] # "ok" \/ (c.tool[1] # "ok" /\ c.before.git.origin # NoRemote)
    ELSE c.invoked /\ ToolFault(c)

\* no operation lets an error out, and each returns a value of its type
NothingRaises ==
    \A i \in 1..Len(calls) :
        /\ ~calls[i].raised
        /\ IF calls[i].op = "stage_all_files"
           THEN calls[i].ret \in Nat \X Nat
           ELSE calls[i].ret \in BOOLEAN

\* C14: whatever fault the underlying tool has, no operation raises,
\* initialize_repo, commit, add_remote, rename_branch and push return False,
\* and stage_all_files returns a pair of numbers.
C14_FaultsBecomeFailureValues ==
    /\ NothingRaises
    /\ \A i \in 1..Len(calls) :
          (calls[i].op \in BooleanOps /\ OperationFault(calls[i])) => calls[i].ret = FALSE

\* C15: when staging went through, the count returned is the number of files
\* the tool staged (every file outside .git that no ignore rule excludes) and
\* the size returned is the sum of the sizes of those files.
C15_StageReportsWhatWasStaged ==
    \A i \in CallsOf("stage_all_files") :
        calls[i].tool = <<"ok">> =>
            /\ calls[i].ret[1] = Cardinality(StagedByGit(calls[i].before.fs))
            /\ calls[i].ret[2] = SumSizes(StagedByGit(calls[i].before.fs))
            /\ calls[i].after.git.staged = calls[i].ret[1]

(***************************************************************************)
(* Properties of the validators (checked under SpecValidation).            *)
(***************************************************************************)
\* the folder can be listed and its entries reached
FolderReadable(t) == <<>> \notin t.unreadable \cup t.unsearchable

\* C16: a folder is reported valid exactly when the path exists, is a
\* directory, is readable and holds no .git directory; a folder with .git
\* is rejected.
C16_FolderWithGitIsRejected ==
    \A i \in CallsOf("validate_folder_path") :
        calls[i].ret.valid <=>
            /\ calls[i].arg = ProjectDir
            /\ FolderReadable(calls[i].tree)
            /\ <<GitDirName>> \notin calls[i].tree.dirs

\* C17: a name is accepted exactly when it has 1 to 100 characters, each a
\* letter, digit, hyphen, underscore or period, and the last one no period.
C17_NameAcceptedIffWellFormed ==
    \A i \in CallsOf("validate_repository_name") :
        LET name == calls[i].arg
        IN  calls[i].ret.valid <=>
                /\ Len(name) \in 1..100
                /\ \A k \in 1..Len(name) : name[k] \in Letters \cup Digits \cup {"-", "_", "."}
                /\ name[Len(name)] # "."

HasKnownPrefix(token) ==
    \/ startswith(token, <<"g", "h", "p", "_">>)
    \/ startswith(token, <<"g", "i", "t", "h", "u", "b", "_", "p", "a", "t", "_">>)

\* C18: the format check looks at nothing but emptiness, length and prefix:
\* every 45-character token that starts with "ghp_" is accepted; the empty
\* token, every token shorter than 20 characters and every token with
\* neither prefix is rejected.
C18_TokenCheckIsLengthAndPrefix ==
    \A i \in CallsOf("validate_token") :
        LET token == calls[i].arg
        IN  /\ (Len(token) = 45 /\ startswith(token, <<"g", "h", "p", "_">>))
                => calls[i].ret.valid
            /\ (token = <<>> \/ Len(token) < 20 \/ ~HasKnownPrefix(token))
                => ~calls[i].ret.valid

(***************************************************************************)
(* Properties of the hosting service (checked under SpecGitHub).           *)
(***************************************************************************)
\* C19: validate_token returns True when the live call yields the user, and
\* False, propagating nothing, whatever fault the hosting API raises.
C19_ValidateTokenNeverPropagates ==
    \A i \in CallsOf("validate_token") :
        /\ calls[i].ret \in BOOLEAN
        /\ (calls[i].api = "ok" /\ calls[i].arg # <<>> /\ calls[i].lib) => calls[i].ret = TRUE
        /\ calls[i].api # "ok" => calls[i].ret = FALSE

\* the same service was asked twice: once the call yielded the user, once
\* the network failed
C19_Witness ==
    /\ Len(calls) = 2
    /\ CallsOf("validate_token") = {1, 2}
    /\ calls[1].lib
    /\ calls[1].api = "ok"
    /\ calls[1].ret = TRUE
    /\ calls[2].api = "network"
    /\ calls[2].ret = FALSE

NamedCauses == {"already_exists", "invalid_name", "authentication_failed"}
FailedCreations == {i \in CallsOf("create_repository") : ~calls[i].ret.ok /\ calls[i].lib}

\* C20: creations that fail for different causes among "already exists",
\* "invalid name" and "authentication failed" report different errors.
C20_ErrorTellsTheCause ==
    \A i, k \in FailedCreations :
        (/\ calls[i].api \in NamedCauses
         /\ calls[k].api \in NamedCauses
         /\ calls[i].api # calls[k].api)
          => calls[i].ret.error # calls[k].ret.error

\* C21: check_repository_exists returns True only when the hosting API
\* confirmed that the repository is there; for a not-found answer and for
\* every other error it returns False, and it never raises.
C21_ExistenceOnlyWhenConfirmed ==
    \A i \in CallsOf("check_repository_exists") :
        /\ calls[i].ret \in BOOLEAN
        /\ calls[i].ret => (calls[i].api = "found" /\ calls[i].present)
        /\ calls[i].api # "found" => calls[i].ret = FALSE

\* one repository was confirmed, and for the same one an error other than
\* not-found gave False
C21_Witness ==
    /\ Len(calls) = 2
    /\ CallsOf("check_repository_exists") = {1, 2}
    /\ calls[1].api = "found"
    /\ calls[1].ret = TRUE
    /\ calls[2].arg = calls[1].arg
    /\ calls[2].api = "forbidden"
    /\ calls[2].ret = FALSE

\* C22: the creation request carries the given name, visibility and
\* description, asks for no initial README, license or ignore file, and a
\* creation that succeeds returns the clone URL of the provider's response.
C22_RequestIsPlainAndUrlIsTheProviders ==
    \A i \in CallsOf("create_repository") :
        calls[i].lib =>
            /\ calls[i].ret.request.name = calls[i].arg
            /\ calls[i].ret.request.private = calls[i].private
            /\ Described(calls[i].ret.request) = calls[i].description
            /\ calls[i].ret.request.auto_init = FALSE
            /\ calls[i].ret.request.templates = {}
            /\ calls[i].ret.ok =>
                  /\ calls[i].ret.url = calls[i].response.clone_url
                  /\ calls[i].response.auto_init = FALSE
                  /\ calls[i].response \in remoteRepos

\* a public repository with a description was created
C22_Witness ==
    \E i \in CallsOf("create_repository") :
        /\ calls[i].ret.ok
        /\ ~calls[i].private
        /\ calls[i].description # <<>>
        /\ calls[i].ret.url = calls[i].response.clone_url

(***************************************************************************)
(* Claims about the workflow, checked under Spec.  A run is an index of    *)
(* worker; its trace holds what it invoked and what it emitted, in order.  *)
(***************************************************************************)
IsOp(e) == e.k = "op"
StepNames == <<"create_repository", "initialize_repo", "create_gitkeep_files",
               "stage_all_files", "commit", "add_remote", "rename_branch", "push">>
StepRank(name) == CHOOSE i \in 1..Len(StepNames) : StepNames[i] = name
IsStep(e) == IsOp(e) /\ e.name \in Range(StepNames)
HardSteps == {"create_repository", "initialize_repo", "stage_all_files", "commit",
              "add_remote", "push"}
LocalSteps == Range(StepNames) \ {"create_repository"}
Trace(r) == worker[r].trace
Steps(r) == SelectSeq(Trace(r), IsStep)
IsCall(e, name) == IsOp(e) /\ e.name = name
Failure(e, name) == IsCall(e, name) /\ ~e.flag
ReportsSuccess(e) == IsMsg(e) /\ e.name = "Repository creation completed successfully!"
IsWarning(e) ==
    IsMsg(e) /\ e.name = "Warning: Could not rename branch (may already be 'main')"
Unfinished == {r \in Runs : worker[r].pc # "done"}

\* the steps of a run appear in the order of StepNames, none twice
StepsInOrder(r) ==
    \A i \in DOMAIN Steps(r) : \A j \in DOMAIN Steps(r) :
        i < j => StepRank(Steps(r)[i].name) < StepRank(Steps(r)[j].name)
\* a step is invoked only after every hard step before it has succeeded
AfterHardSuccess(r) ==
    \A j \in DOMAIN Steps(r) : \A h \in HardSteps :
        StepRank(h) < StepRank(Steps(r)[j].name) =>
            \E i \in 1..(j - 1) : Steps(r)[i].name = h /\ Steps(r)[i].flag
\* success is reported only after a push that succeeded
SuccessAfterPush(r) ==
    \A k \in DOMAIN Trace(r) :
        ReportsSuccess(Trace(r)[k]) =>
            \E i \in 1..(k - 1) : IsCall(Trace(r)[i], "push") /\ Trace(r)[i].flag

\* C1: in every run the operations are invoked in the order create, init,
\* markers, stage, commit, set remote, rename, push, each at most once; an
\* operation is invoked only after every earlier hard step has succeeded; and
\* success is reported only after push has succeeded.
C1_OrderedOnceAfterHardSuccess ==
    \A r \in Runs : StepsInOrder(r) /\ AfterHardSuccess(r) /\ SuccessAfterPush(r)

\* what a run has done is still there: the repository it created at the
\* provider, the .git directory it initialised
NothingUndone(r) ==
    /\ (\E i \in DOMAIN Trace(r) :
           IsCall(Trace(r)[i], "create_repository") /\ Trace(r)[i].flag)
          => worker[r].repo_name \in RepoNames(remoteRepos)
    /\ (\E i \in DOMAIN Trace(r) :
           IsCall(Trace(r)[i], "initialize_repo") /\ Trace(r)[i].flag)
          => <<GitDirName>> \in fs.dirs

\* C2: whenever the operation of a hard step fails, the run emits an error
\* message, ends in Failed, invokes no later operation, and undoes nothing
\* of what was already done.
C2_HardFailureStopsTheRun ==
    \A r \in Runs : \A i \in DOMAIN Trace(r) :
        (IsStep(Trace(r)[i]) /\ Trace(r)[i].name \in HardSteps /\ ~Trace(r)[i].flag) =>
            /\ \E k \in (i + 1)..Len(Trace(r)) : IsMsg(Trace(r)[k]) /\ Trace(r)[k].flag
            /\ worker[r].outcome = "Failed"
            /\ \A k \in (i + 1)..Len(Trace(r)) : ~IsOp(Trace(r)[k])
            /\ NothingUndone(r)

\* C3: at most one workflow runs at a time: a start request made while a
\* started worker has not finished starts no worker, so two workers are never
\* executing at the same time.
C3_OneWorkerAtATime == Cardinality(Unfinished) <= 1

\* C4: rename is the only soft step: a failed rename_branch is followed by a
\* warning that is not flagged as an error, the run goes on to push, and if
\* the run fails it is push that failed; no other step ends in a warning.
C4_RenameFailureIsSoft ==
    \A r \in Runs : \A i \in DOMAIN Trace(r) :
        /\ Failure(Trace(r)[i], "rename_branch") =>
              /\ IsWarning(Trace(r)[i + 1]) /\ ~Trace(r)[i + 1].flag
              /\ \/ worker[r].pc = "push"
                 \/ \E k \in (i + 1)..Len(Trace(r)) : IsCall(Trace(r)[k], "push")
              /\ worker[r].outcome = "Failed" =>
                    \E k \in (i + 1)..Len(Trace(r)) : Failure(Trace(r)[k], "push")
        /\ IsWarning(Trace(r)[i]) => Failure(Trace(r)[i - 1], "rename_branch")
\* a run whose rename failed has finished in Succeeded
C4_Witness ==
    \E r \in Runs :
        /\ worker[r].pc = "done"
        /\ worker[r].outcome = "Succeeded"
        /\ \E i \in DOMAIN Trace(r) : Failure(Trace(r)[i], "rename_branch")

\* C5: if remote repository creation fails, the run ends in Failed and no
\* local version-control operation is ever invoked in that run.
C5_NoLocalStepAfterCreateFailure ==
    \A r \in Runs :
        (\E i \in DOMAIN Trace(r) : Failure(Trace(r)[i], "create_repository")) =>
            /\ worker[r].outcome = "Failed"
            /\ \A k \in DOMAIN Trace(r) : ~(IsOp(Trace(r)[k]) /\ Trace(r)[k].name \in LocalSteps)
\* a run refused by the provider for a name collision has finished
C5_Witness ==
    \E r \in Runs :
        /\ worker[r].pc = "done"
        /\ \E i \in DOMAIN Trace(r) :
              /\ Failure(Trace(r)[i], "create_repository")
              /\ Trace(r)[i + 1].name = "Error: Repository already exists or name is invalid"

\* the three validators accept the (stripped) inputs
AllAccept(folder_path, repo_name, token, t) ==
    /\ validate_folder_path(folder_path, t).valid
    /\ validate_repository_name(repo_name).valid
    /\ validate_token(token).valid
FormAccepted == AllAccept(strip(form.folder_path), strip(form.repo_name), strip(form.token), fs)

ProviderUrl(r) == (CHOOSE rp \in remoteRepos : rp.name = worker[r].repo_name).clone_url
ReportsUrl(e) == IsMsg(e) /\ e.name = "Repository URL"
Succeeded == {r \in Runs : worker[r].outcome = "Succeeded"}

\* C23: in a run that ends in Succeeded, the URL set as origin and the URL of
\* the final message are the clone URL the provider returned for the
\* repository this run created.
C23_SuccessReportsTheProvidersUrl ==
    \A r \in Succeeded :
        /\ \E rp \in remoteRepos : rp.name = worker[r].repo_name
        /\ \A k \in DOMAIN Trace(r) :
              /\ IsCall(Trace(r)[k], "add_remote") => Trace(r)[k].arg = ProviderUrl(r)
              /\ ReportsUrl(Trace(r)[k]) => Trace(r)[k].arg = ProviderUrl(r)
        /\ \E k \in DOMAIN Trace(r) : ReportsUrl(Trace(r)[k])
        /\ git.origin = ProviderUrl(r)

\* a run succeeded and its repository was pushed to
C23_Witness ==
    \E r \in Succeeded :
        /\ git.origin = ProviderUrl(r)
        /\ \E rp \in remoteRepos : rp.clone_url = git.origin /\ rp.pushed

(***************************************************************************)
(* Properties of the configuration file (checked under SpecConfig).        *)
(***************************************************************************)
SecretKeys == {"token", "pat"}
StoredKeys == DOMAIN load_config(CONFIG_FILE)

\* C24: whatever was saved and however, the stored configuration has no
\* entry under 'token' or 'pat'; set_config_value with such a key returns
\* False and leaves the file as it was.
C24_TokenIsNeverStored ==
    /\ StoredKeys \cap SecretKeys = {}
    /\ CONFIG_FILE.state = "json" => (DOMAIN CONFIG_FILE.data) \cap SecretKeys = {}
    /\ \A i \in CallsOf("set_config_value") :
          calls[i].arg[1] \in SecretKeys =>
              /\ calls[i].ret = FALSE
              /\ calls[i].after = calls[i].before

\* a dictionary that holds the token was saved, and the file holds the rest
C24_Witness ==
    \E i \in CallsOf("save_config") :
        /\ {"token", "repo_name"} \subseteq DOMAIN calls[i].arg
        /\ calls[i].arg["token"] = ValidToken
        /\ calls[i].ret = TRUE
        /\ StoredKeys = (DOMAIN calls[i].arg) \ SecretKeys

(***************************************************************************)
(* Properties of the two threads (checked under Spec).                     *)
(***************************************************************************)
\* a step of a worker thread: a run that exists moved on
WorkerStep == Len(worker') = Len(worker) /\ worker' # worker

\* C25: a step of a worker thread writes no state of the window: the
\* processing flag, the form, the widgets and the status lines stay as they
\* are, and all the step leaves behind for the window are callbacks added
\* to the event loop's queue.
C25_WorkerTouchesNoUiState ==
    [][WorkerStep =>
          /\ is_processing' = is_processing
          /\ form' = form
          /\ widgets_enabled' = widgets_enabled
          /\ status_shown' = status_shown
          /\ sink' = sink
          /\ Len(uiQueue') >= Len(uiQueue)
          /\ SubSeq(uiQueue', 1, Len(uiQueue)) = uiQueue]_vars

\* what a request made of the form f asks for
Requested(f) ==
    [name |-> strip(f.repo_name), private |-> f.visibility = "private",
     description |-> strip(f.description)]

\* C26: whatever the user does to the form while a run is under way, the
\* run works with what the form held when its start was accepted: the
\* folder, the token, the name and the commit message it holds, and the
\* name, visibility and description it asks the provider for.
C26_RequestIsWhatWasAccepted ==
    \A r \in Runs :
        LET w == worker[r]
        IN  /\ w.folder_path = strip(w.accepted.folder_path)
            /\ w.token = strip(w.accepted.token)
            /\ w.repo_name = strip(w.accepted.repo_name)
            /\ w.commit_message = strip(w.accepted.commit_message)
            /\ \A k \in DOMAIN Trace(r) :
                  IsCall(Trace(r)[k], "create_repository") =>
                      Trace(r)[k].arg = Requested(w.accepted)

(***************************************************************************)
(* Properties of the status lines of a run (checked under Spec).           *)
(***************************************************************************)
IsError(e) == IsMsg(e) /\ e.flag
Errors(r) == SelectSeq(Trace(r), IsError)
Ops(r) == SelectSeq(Trace(r), IsOp)
LastOp(r) == Ops(r)[Len(Ops(r))]
\* the step an error line speaks of
StepNamedBy(text) ==
    CASE text = "Error: Invalid GitHub token" -> "validate_token"
      [] text = "Error: Failed to initialize Git repository" -> "initialize_repo"
      [] text = "Error: Permission denied" -> "create_gitkeep_files"
      [] text = "Error: Failed to create commit" -> "commit"
      [] text = "Error: Failed to add remote" -> "add_remote"
      [] text = "Error: Failed to push to GitHub" -> "push"
      [] OTHER -> "create_repository"
\* the run is over and the event loop has run all its callbacks
Delivered(r) ==
    /\ worker[r].pc = "done"
    /\ \A i \in DOMAIN uiQueue : uiQueue[i].run # r
ErrorLines(r) == SelectSeq(sink[r], LAMBDA line : line.error)
RaisedIn(r) == LastOp(r).name \in {"create_repository", "create_gitkeep_files"}

\* C27: a run that ended in Failed has emitted exactly one error-flagged
\* message, and that message speaks of the operation that failed, the last
\* one the run invoked; a run that ended in Succeeded has emitted none.  The
\* sink never holds more error lines of a run than the run emitted, and
\* once the run is over and its callbacks have run, the sink holds the
\* run's messages, each once and in order.
C27_OneErrorLinePerFailedRun ==
    \A r \in Runs :
        /\ worker[r].outcome = "Failed" =>
              /\ Len(Errors(r)) = 1
              /\ Ops(r) # <<>>
              /\ ~LastOp(r).flag
              /\ StepNamedBy(Errors(r)[1].name) = LastOp(r).name
        /\ worker[r].outcome = "Succeeded" => Errors(r) = <<>>
        /\ Len(ErrorLines(r)) <= Len(Errors(r))
        /\ Delivered(r) =>
              LET m == SelectSeq(Trace(r), IsMsg)
              IN  sink[r] = [i \in 1..Len(m) |->
                                [text |-> m[i].name, error |-> m[i].flag, arg |-> m[i].arg]]

\* two runs are over and delivered, one that failed because a step
\* returned failure and one that failed because a service raised; each has
\* its one error line in the sink
C27_Witness ==
    \E r1 \in Runs : \E r2 \in Runs :
        /\ Delivered(r1) /\ Delivered(r2)
        /\ worker[r1].outcome = "Failed" /\ worker[r2].outcome = "Failed"
        /\ ~RaisedIn(r1) /\ RaisedIn(r2)
        /\ Len(ErrorLines(r1)) = 1 /\ Len(ErrorLines(r2)) = 1

(***************************************************************************)
(* Properties of the processing flag (checked under SpecFair).             *)
(***************************************************************************)
Started(r) == r \in Runs
Over(r) == r \in Runs /\ worker[r].pc = "done"
\* the run is over, the flag is down, the form accepts input
Released(r) == Over(r) /\ ~is_processing /\ widgets_enabled

\* C28: every run that was started comes to its end, whatever its steps
\* return or raise; the step that ends it leaves the processing flag false,
\* and from then on a state is reached in which the run is over, the flag
\* is false and the form is enabled.  The flag is true only while some run
\* is not over.
C28_RunsEndAndReleaseTheForm ==
    /\ \A r \in 1..MaxRuns : Started(r) ~> Released(r)
    /\ [][\A r \in Runs : (~Over(r) /\ Over(r)') => ~is_processing']_vars
    /\ [](is_processing => Unfinished # {})

\* a run that failed, one that a raised error ended and one that succeeded
\* are over, and the form is released
C28_Witness ==
    /\ \E r \in Runs : Released(r) /\ worker[r].outcome = "Failed" /\ ~RaisedIn(r)
    /\ \E r \in Runs : Released(r) /\ worker[r].outcome = "Succeeded"
    /\ uiQueue = <<>>

(***************************************************************************)
(* Properties of the live token check in the workflow (checked under Spec).*)
(***************************************************************************)
LiveCheckFailed(r) == \E k \in DOMAIN Trace(r) : Failure(Trace(r)[k], "validate_token")

\* C29: a run whose live token check returned False is Failed, its only
\* error line says that the token is invalid, and the check is the only
\* operation it ever invokes; a run that asks the provider to create the
\* repository holds a token that the format check accepts, and its live
\* check came first and returned True.
C29_NoCreationWithoutACheckedToken ==
    \A r \in Runs :
        /\ LiveCheckFailed(r) =>
              /\ worker[r].outcome = "Failed"
              /\ Len(Ops(r)) = 1
              /\ Len(Errors(r)) = 1
              /\ Errors(r)[1].name = "Error: Invalid GitHub token"
        /\ \A k \in DOMAIN Trace(r) :
              IsCall(Trace(r)[k], "create_repository") =>
                  /\ validate_token(worker[r].token).valid
                  /\ \E j \in 1..(k - 1) :
                        IsCall(Trace(r)[j], "validate_token") /\ Trace(r)[j].flag

\* a run whose live check failed is over, and nothing was created
C29_Witness ==
    \E r \in Runs :
        /\ LiveCheckFailed(r)
        /\ worker[r].pc = "done"
        /\ remoteRepos = {}
        /\ git = NewLocalRepo

(***************************************************************************)
(* Properties of the two counting loops of stage_all_files (checked under  *)
(* SpecGitService).                                                        *)
(***************************************************************************)
\* the regular files of t that are not inside the .git directory
FilesOutsideGitDir(t) ==
    {p \in t.files : WalkYields(t, Parent(p)) /\ GitDirName \notin Range(Parent(p))}
Counted(files) == <<Cardinality(files), SumSizes(files)>>

\* C30: when stage_all_files has staged with a working tool, what it
\* returned is what either of its two counting loops gives for the tree:
\* both give the number and the size of the files that are not inside .git,
\* a file in a directory such as .github included.
C30_BothLoopsCountTheSame ==
    \A i \in CallsOf("stage_all_files") :
        calls[i].tool = <<"ok">> =>
            LET t == calls[i].before.fs
            IN  /\ Counted(CountedByRglob(t)) = Counted(CountedByWalk(t))
                /\ calls[i].ret = Counted(FilesOutsideGitDir(t))

====
